---- MODULE Spec2Model ----
(***************************************************************************)
(* Credential pool and request dispatch core of the Gemini proxy.          *)
(*                                                                         *)
(*   src/src/auth.py               _create_credential_from_dict,           *)
(*                                 load_credentials_pool,                  *)
(*                                 get_next_credential, save_credentials   *)
(*   src/src/google_api_client.py  get_user_project_id, onboard_user,      *)
(*                                 send_gemini_request and its handlers    *)
(*   src/src/main.py, src/run.py   the two start-up paths                  *)
(*                                                                         *)
(* Values.  A token is a number: 0 is the empty token, 1 a token taken     *)
(* from the configuration (or from the OAuth flow), 1 + k the k-th token   *)
(* issued by the token endpoint.  A project id is a number, 0 for "not     *)
(* set".  An expiry is "none" (no expiry on the object), "past" (the       *)
(* library's `expired` is true) or "future".                               *)
(***************************************************************************)
EXTENDS Integers, Sequences, FiniteSets, TLC

\* ------------------------------------------------------------- bounds
\* most GEMINI_CREDENTIALS{i} variables, and most elements of the array
MaxCreds == 2
\* most send_gemini_request calls in one run
MaxDispatch == 3
\* most tokens the token endpoint issues in one run
MaxIssued == 2
\* most expiries that pass while the proxy serves
MaxTicks == 1

\* the callers (threads / request handlers) that may be inside
\* send_gemini_request at the same time
Procs == {1, 2}

\* lines of one upstream stream
MaxLines == 3

\* messages of one chat-completion request
MaxMessages == 3

\* parts of one candidate of an upstream response
MaxParts == 2

\* candidates of one upstream response
MaxCandidates == 2

\* segments of one request path
MaxSegments == 3

\* ------------------------------------------------- configuration sources
\* One JSON credential object as found in a source.  token / access_token:
\* -1 = key absent, 0 = empty string, 1 = a token.  expiry: "absent",
\* "past", "future", "badz" (holds "Z" or "+00:00" and does not parse),
\* "bad" (any other string the library cannot parse).
Cand(js, rt, tok, atok, exp, pid) ==
    [json |-> js, refresh_token |-> rt, token |-> tok, access_token |-> atok,
     expiry |-> exp, project_id |-> pid]

Malformed == Cand(FALSE, FALSE, -1, -1, "absent", 0)
NoRefresh == Cand(TRUE, FALSE, 1, -1, "future", 1)
Fresh     == Cand(TRUE, TRUE, 1, -1, "future", 1)
Stale     == Cand(TRUE, TRUE, 1, -1, "past", 0)
Bare      == Cand(TRUE, TRUE, -1, -1, "absent", 2)
Aliased   == Cand(TRUE, TRUE, -1, 1, "future", 0)

\* values of one GEMINI_CREDENTIALS{i} variable
NumberedCands == {Malformed, NoRefresh, Fresh, Stale}
\* elements of the GEMINI_CREDENTIALS array (or its single object)
ArrayCands == {NoRefresh, Aliased}
\* contents of the credential file when the process starts
FileCands == {NoRefresh, Bare}

SeqsUpTo(S, n) == UNION {[1..k -> S] : k \in 0..n}

\* GEMINI_CREDENTIALS1.. : contiguous from 1, so a sequence
NumberedEnvs == SeqsUpTo(NumberedCands, MaxCreds)
\* GEMINI_CREDENTIALS: unset (or empty), not JSON, or a list of objects
\* (a single object is the list of that one object, auth.py:203-204)
ArrayEnvs ==
    {[set |-> FALSE, json |-> FALSE, items |-> <<>>],
     [set |-> TRUE, json |-> FALSE, items |-> <<>>]}
    \cup {[set |-> TRUE, json |-> TRUE, items |-> s] : s \in SeqsUpTo(ArrayCands, MaxCreds)}
\* the credential file: <<>> when it does not exist
FileInits == {<<>>} \cup {<<c>> : c \in FileCands}
\* an object whose expiry is a string holding "Z" that does not parse, and
\* one whose expiry is of any other form the library cannot read
ZuluGarbled == Cand(TRUE, TRUE, 1, -1, "badz", 1)
OtherForm   == Cand(TRUE, TRUE, 1, -1, "bad", 1)
\* the credential file as the start-up paths may find it
BootFiles == FileInits \cup {<<ZuluGarbled>>, <<OtherForm>>, <<Fresh>>}
\* mutant: the authorization URL asks for online access
FlowAccessTypeOnline == "online"

\* auth.py:289-293: the authorization URL asks for offline access and forces
\* the consent screen, on which the token endpoint delivers a refresh token
\* with the access token
FlowAccessType == "offline"

\* auth.py:291
FlowPrompt == "consent"

\* the credential of the flow carries a refresh token
FlowRefreshToken == FlowAccessType = "offline" /\ FlowPrompt = "consent"
\* what _run_oauth_flow returns: <<>> for None, else the flow's credential
OAuthResults ==
    {<<>>, <<[token |-> 1, refresh_token |-> FlowRefreshToken, expiry |-> "future"]>>}
\* the expiry google-auth gives an object built without one: none at all,
\* or (newer releases) a time already past
LibDefaultExpiries == {"none", "past"}

VARIABLES
    phase,              \* "boot", "loaded", "serving", "runpy_ok", "exit"
    credential_pool,    \* auth.py:24
    current_credential_index,   \* auth.py:25, 0-based as in the code
    round_robin_lock,   \* auth.py:26: 0 = free, else the holder
    user_project_id,    \* auth.py:28
    credFile,           \* contents of CREDENTIAL_FILE, <<>> = no file
    envArraySet,        \* os.getenv("GEMINI_CREDENTIALS") is not None
    issued,             \* tokens issued by the token endpoint so far
    req,                \* per caller: its send_gemini_request activation
    history,            \* indices drawn since the last load, in draw order
    ndispatch,          \* send_gemini_request calls so far
    loadCall,           \* the load_credentials_pool call that just returned
    ticks,              \* expiries that have passed while serving
    exchange,           \* one generation call seen from the upstream's side:
                        \* its answer, the Response built from it and the
                        \* events of the stream handed to the client
    xform,              \* one call of a format transformer: its argument
                        \* and what it returned
    route,              \* the route handlers on the server's event loop
    chat                \* one run of the chat-completion stream generator

vars == <<phase, credential_pool, current_credential_index, round_robin_lock,
          user_project_id, credFile, envArraySet, issued, req, history,
          ndispatch, loadCall, ticks, exchange, xform, route, chat>>

\* ------------------------------------------------------ credential objects
\* google.oauth2.credentials.Credentials plus the attributes the code attaches
Credential(tok, rt, exp, pid, stype, sindex, sname) ==
    [token |-> tok, refresh_token |-> rt, expiry |-> exp, project_id |-> pid,
     onboarding_complete |-> FALSE,
     credential_source_type |-> stype, credential_source_index |-> sindex,
     source_name |-> sname]

\* Credentials.expired
Expired(c) == c.expiry = "past"

\* mutant: the safeguard on refresh_token is missing
RefreshTokenUnchecked(raw) == TRUE

\* auth.py:118
HasRefreshToken(raw) == raw.refresh_token

\* auth.py:125-126: access_token is an alias used when token is absent
NormalisedToken(raw) ==
    IF raw.access_token # -1 /\ raw.token = -1 THEN raw.access_token
    ELSE IF raw.token = -1 THEN 0 ELSE raw.token

\* auth.py:131-141: the expiry of the object built from raw; "reject" when
\* Credentials.from_authorized_user_info raises on it (caught at 161-163)
NormalisedExpiry(raw, dflt) ==
    CASE raw.expiry = "badz"   -> dflt
      [] raw.expiry = "absent" -> dflt
      [] raw.expiry = "bad"    -> "reject"
      [] OTHER                 -> raw.expiry

\* auth.py:151: refresh immediately if expired or no token is present
NeedsRefreshAtLoad(tok, exp, rt) == tok = 0 \/ (exp = "past" /\ rt)

\* auth.py:114-163 _create_credential_from_dict: <<>> for None, else <<creds>>.
\* ok: the refresh call (if one is made) succeeds and delivers token newTok.
CreateCredentialFromDict(raw, sname, dflt, ok, newTok) ==
    IF ~HasRefreshToken(raw) THEN <<>>
    ELSE LET tok == NormalisedToken(raw)
             exp == NormalisedExpiry(raw, dflt)
         IN IF exp = "reject" THEN <<>>
            ELSE IF NeedsRefreshAtLoad(tok, exp, raw.refresh_token) /\ ok
                 THEN <<Credential(newTok, TRUE, "future", raw.project_id, "none", 0, sname)>>
                 ELSE <<Credential(tok, TRUE, exp, raw.project_id, "none", 0, sname)>>

\* whether _create_credential_from_dict calls creds.refresh for raw
CallsRefreshAtLoad(raw, dflt) ==
    /\ HasRefreshToken(raw)
    /\ NormalisedExpiry(raw, dflt) # "reject"
    /\ NeedsRefreshAtLoad(NormalisedToken(raw), NormalisedExpiry(raw, dflt), raw.refresh_token)

\* ------------------------------------------------------------- the loader
\* auth.py:189-190, 211, 224: the provenance attributes attached by the loader
Tagged(creds, stype, sindex) ==
    [k \in 1..Len(creds) |->
        [creds[k] EXCEPT !.credential_source_type = stype,
                         !.credential_source_index = sindex]]

\* The token endpoint answers a refresh call made for position k of a source:
\* it succeeds for the positions in okset while it still has tokens to issue.
RefreshSucceeds(k, okset, n) == k \in okset /\ n < MaxIssued

\* The loader is a sequence of statements on creds_list; acc is its state
\* between two of them: [creds |-> creds_list, issued |-> tokens issued so far].
\* auth.py:169
EmptyList(n) == [creds |-> <<>>, issued |-> n]

\* auth.py:182-193 and 207-212: the object at position k of a source is
\* parsed, built and appended.  kind is "numbered" (each object is its own
\* JSON text, 184/192-193), "array" or "file".
LoadOne(raw, k, kind, dflt, okset, acc) ==
    CHOOSE out \in
        {[creds  |-> acc.creds \o
                     (IF ~raw.json THEN <<>>
                      ELSE Tagged(CreateCredentialFromDict(raw, <<kind, k>>, dflt, ok,
                                                           acc.issued + 2),
                                  IF kind = "numbered" THEN "numbered" ELSE "array_or_file",
                                  IF kind = "numbered" THEN k ELSE 0)),
          issued |-> IF ok THEN acc.issued + 1 ELSE acc.issued]
         : ok \in {raw.json /\ CallsRefreshAtLoad(raw, dflt)
                             /\ RefreshSucceeds(k, okset, acc.issued)}} : TRUE

\* auth.py:175-195 and 207-212: one pass over the objects of a source, from
\* position k on.
RECURSIVE LoadList(_, _, _, _, _, _)
LoadList(cands, k, kind, dflt, okset, acc) ==
    IF k > Len(cands) THEN acc
    ELSE CHOOSE out \in
             {LoadList(cands, k + 1, kind, dflt, okset, next)
              : next \in {LoadOne(cands[k], k, kind, dflt, okset, acc)}} : TRUE

\* auth.py:87-112 save_credentials: the JSON object written to the file
SavedCredential(creds, pid) ==
    Cand(TRUE, creds.refresh_token, creds.token, -1,
         IF creds.expiry = "none" THEN "absent" ELSE creds.expiry, pid)

\* mutant: the array is read as well when numbered variables exist
ArrayConsultedAlways(numbered, array) == array.set

\* auth.py:181 and 198: the array is read only when no numbered variable exists
ArrayConsulted(numbered, array) == Len(numbered) = 0 /\ array.set

\* auth.py:217: the file is read only when nothing was loaded so far
FileConsulted(soFar, file) == soFar = <<>> /\ file # <<>>

\* mutant: the interactive flow runs whenever it is allowed
FlowRunsWhenAllowed(soFar, allow) == allow

\* auth.py:230: the interactive flow runs only when nothing was loaded so far
FlowRuns(soFar, allow) == soFar = <<>> /\ allow

\* load_credentials_pool has no return statement: it returns None, modelled
\* as the empty tuple (a pair would be <<mode, projectIds>>)
LoadReturnValue(pool) == <<>>

\* auth.py:171-195: step 1, the numbered variables
LoadNumbered(numbered, dflt, okset, n) ==
    LoadList(numbered, 1, "numbered", dflt, okset, EmptyList(n))

\* auth.py:197-214: step 2, the array
LoadArray(numbered, array, dflt, okset, prev) ==
    IF ArrayConsulted(numbered, array) /\ array.json
    THEN LoadList(array.items, 1, "array", dflt, okset, prev)
    ELSE prev

\* auth.py:216-227: step 3, the credential file
LoadFile(file, dflt, okset, prev) ==
    CHOOSE out \in
        {IF FileConsulted(acc.creds, file)
         THEN LoadList(file, 1, "file", dflt, okset, acc)
         ELSE acc
         : acc \in {prev}} : TRUE

\* auth.py:232-235: the record made of the credential the flow returned
FlowCredential(flow) ==
    Credential(flow[1].token, flow[1].refresh_token, flow[1].expiry,
               0, "oauth_flow", 0, <<"oauth", 1>>)

\* auth.py:229-244: step 4, the interactive flow, and the assignment of the
\* pool; the credential of the flow is written to the file (234)
LoadFlow(file, allow, flow, prev) ==
    CHOOSE out \in
        {IF FlowRuns(acc.creds, allow) /\ flow # <<>>
         THEN [pool   |-> <<FlowCredential(flow)>>,
               issued |-> acc.issued,
               file   |-> <<SavedCredential(FlowCredential(flow), 0)>>,
               ret    |-> LoadReturnValue(<<FlowCredential(flow)>>)]
         ELSE [pool   |-> acc.creds,
               issued |-> acc.issued,
               file   |-> file,
               ret    |-> LoadReturnValue(acc.creds)]
         : acc \in {prev}} : TRUE

\* auth.py:165-244 load_credentials_pool(allow_oauth_flow = allow) on the
\* environment (numbered, array), the credential file and the outcome of the
\* OAuth flow; n = tokens issued so far.
LoadCredentialsPool(numbered, array, file, allow, flow, dflt, okset, n) ==
    LoadFlow(file, allow, flow,
        LoadFile(file, dflt, okset,
            LoadArray(numbered, array, dflt, okset,
                LoadNumbered(numbered, dflt, okset, n))))

\* the record of a load call; NoCall when none has just returned
NoCall ==
    [called |-> FALSE, numbered |-> <<>>,
     array |-> [set |-> FALSE, json |-> FALSE, items |-> <<>>],
     file |-> <<>>, allow |-> FALSE, flow |-> <<>>, dflt |-> "none",
     okset |-> {}, ret |-> <<>>]

\* the idle activation of a caller
Idle ==
    [pc |-> "idle",           \* where the activation stands
     streaming |-> FALSE,     \* is_streaming
     index |-> -1,            \* auth.py:255 `index`; creds is the record at it
     drawn |-> 0,             \* records this activation has drawn so far
     ticket |-> 0,            \* inside get_next_credential: the position of
                              \* its draw among all draws
     calls |-> {},            \* the network calls it has issued
     refresh |-> "none",      \* outcome of its refresh call: "ok", "fail"
     sent |-> "none",         \* a call in flight: what the upstream makes of
                              \* the token it carries
     seen |-> [token |-> 0, expiry |-> "none"],   \* the record as read at auth.py:260
     after |-> [token |-> 0, expiry |-> "none"],  \* the record as returned at 270
     proj |-> 0,              \* proj_id
     onb |-> -1,              \* the answer to its onboarding call, while its
                              \* generation call is in flight (-1: none)
     status |-> 0,            \* status of the Response returned (-1: raised)
     body |-> "none"]         \* what the Response carries

\* The pool is replaced wholesale (auth.py:238); the cursor is not touched;
\* user_project_id follows the first record (auth.py:239-241).
\* One run of the loader: the environment it finds (numbered, array), its
\* argument allow_oauth_flow, and what its collaborators do (the outcome of
\* the OAuth flow, the library's default expiry, the source positions whose
\* refresh call succeeds).
\* no transformer has been called
NoXform ==
    [stage |-> "none",      \* "none", "request", "aggregate", "chunk"
     messages |-> <<>>,     \* openai_request.messages as passed
     after |-> <<>>,        \* openai_request.messages after the call
     contents |-> <<>>,     \* request_payload["contents"]
     candidates |-> <<>>,   \* gemini_response / gemini_chunk ["candidates"]
     choices |-> <<>>]      \* the choices of the model returned

\* no request has reached a route
NoRoute ==
    [stage |-> "none",      \* "none", "answered"
     handler |-> "none",    \* the route function the request went to
     auth |-> FALSE,        \* authenticate_user accepted the request
     method |-> "none",
     path |-> <<>>,         \* full_path, split at `/`
     body |-> "none",       \* "empty", "json", "not_json"
     model |-> <<>>,        \* what _extract_model_from_path returned
     dispatcher |-> [status |-> -1, body |-> "none"],
                            \* the Response send_gemini_request has ready
     invoked |-> FALSE,     \* send_gemini_request was entered
     status |-> -1,         \* the response the client receives
     out |-> "none"]

\* no chat-completion stream is being generated
NoChat ==
    [stage |-> "none",       \* "none", "reading", "ended", "cancelled"
     upstream |-> <<>>,      \* the lines of the upstream's event stream
     body |-> <<>>,          \* what response.body_iterator delivers
     pos |-> 0,              \* events of body taken so far
     out |-> <<>>,           \* events yielded to the client
     raised |-> FALSE,       \* an exception reached the outer except clause
     suspended |-> FALSE]    \* the generator waits at a yield

\* no generation call is being looked at
NoExchange ==
    [stage |-> "none",        \* "none", "returned", "relaying", "ended"
     streaming |-> FALSE,     \* is_streaming
     reply |-> [status |-> -1, body |-> "none"],     \* what requests.post gave
     response |-> [status |-> -1, body |-> "none"],  \* the Response returned
     lines |-> <<>>,          \* the lines resp.iter_lines() delivers
     pos |-> 0,               \* lines read so far
     events |-> <<>>,         \* events the generator has yielded
     failed |-> FALSE,        \* resp.iter_lines() has raised
     suspended |-> FALSE,     \* the generator waits at a yield or at sleep(0)
     gone |-> FALSE,          \* the inbound client has disconnected
     closed |-> FALSE]        \* `with resp:` has been left, resp is closed

Configs(Ns, As, allows) ==
    [numbered : Ns, array : As, allow : allows, flow : OAuthResults,
     dflt : LibDefaultExpiries, okset : SUBSET (1..MaxCreds)]

\* every environment the loader is examined on
AllConfigs(allows) == Configs(NumberedEnvs, ArrayEnvs, allows)

\* the environments the serving proxy is examined on
ServeConfigs ==
    Configs({<<>>, <<Stale>>, <<Fresh, Stale>>},
            {[set |-> FALSE, json |-> FALSE, items |-> <<>>],
             [set |-> TRUE, json |-> TRUE, items |-> <<Aliased>>]},
            {TRUE})

\* the environments a reload of the serving proxy is examined on: the
\* numbered variables have been changed, the token endpoint is up or down
ReloadConfigs ==
    [numbered : {<<>>, <<Stale>>, <<Fresh, Stale>>},
     array : {[set |-> FALSE, json |-> FALSE, items |-> <<>>]},
     allow : {FALSE}, flow : {<<>>}, dflt : {"past"},
     okset : {{}, 1..MaxCreds}]

RunLoader(cfg, file, n) ==
    LoadCredentialsPool(cfg.numbered, cfg.array, file, cfg.allow, cfg.flow,
                        cfg.dflt, cfg.okset, n)

CallRecord(cfg, file, r) ==
    [called |-> TRUE, numbered |-> cfg.numbered, array |-> cfg.array,
     file |-> file, allow |-> cfg.allow, flow |-> cfg.flow,
     dflt |-> cfg.dflt, okset |-> cfg.okset, ret |-> r.ret]

DoLoad(cfg, record) ==
    \E r \in {RunLoader(cfg, credFile, issued)} :
       /\ credential_pool' = r.pool
       /\ issued' = r.issued
       /\ credFile' = r.file
       /\ envArraySet' = cfg.array.set
       /\ user_project_id' = IF r.pool # <<>> THEN r.pool[1].project_id
                             ELSE user_project_id
       /\ loadCall' = IF record THEN CallRecord(cfg, credFile, r) ELSE NoCall
       /\ history' = <<>>
       /\ UNCHANGED <<current_credential_index, round_robin_lock, req, ndispatch, ticks, exchange, xform, route, chat>>

\* main.py:36-50 startup_event: the pool is loaded, with the interactive
\* flow allowed, before the server takes requests.
StartupEvent ==
    /\ phase \in {"boot", "runpy_ok"}
    /\ \E cfg \in AllConfigs({TRUE}) : DoLoad(cfg, TRUE)
    /\ phase' = "loaded"

\* run.py:113-163: load the pool without the flow and unpack the result as
\* (credential_mode, loaded_project_ids); a value that is no pair raises
\* TypeError, which the except clause turns into sys.exit(1).
RunMain ==
    /\ phase = "boot"
    /\ \E cfg \in AllConfigs({FALSE}) : DoLoad(cfg, TRUE)
    /\ phase' = IF Len(loadCall'.ret) = 2 THEN "runpy_ok" ELSE "exit"

\* the process as its modules are imported, before any load
InitBoot ==
    /\ phase = "boot"
    /\ credential_pool = <<>>
    /\ current_credential_index = 0
    /\ round_robin_lock = 0
    /\ user_project_id = 0
    /\ credFile \in BootFiles
    /\ envArraySet = FALSE
    /\ issued = 0
    /\ req = [p \in Procs |-> Idle]
    /\ history = <<>>
    /\ ndispatch = 0
    /\ loadCall = NoCall
    /\ ticks = 0
    /\ exchange = NoExchange
    /\ xform = NoXform
    /\ route = NoRoute
    /\ chat = NoChat

\* ------------------------------------------------- get_next_credential
Serving == phase \in {"loaded", "serving"}

\* the record a caller drew (index is 0-based, sequences are 1-based)
Rec(p) == credential_pool[req[p].index + 1]

Snapshot(c) == [token |-> c.token, expiry |-> c.expiry]

\* mutant: the with-block is entered whether or not the lock is held
LockFreeAlways == TRUE

\* auth.py:250: `with round_robin_lock` is entered only when the lock is free
LockFree == round_robin_lock = 0

\* mutant: the cursor skips a record
NextIndexSkip(index, n) == (index + 2) % n

\* auth.py:258
NextIndex(index, n) == (index + 1) % n

\* auth.py:260
ShouldRefresh(c) == Expired(c) /\ c.refresh_token

\* A route handler calls send_gemini_request (google_api_client.py:101),
\* which calls get_next_credential at once (113).
Begin(p) ==
    /\ Serving
    /\ req[p].pc \in {"idle", "done"}
    /\ ndispatch < MaxDispatch
    /\ req' = [req EXCEPT ![p] = [Idle EXCEPT !.pc = "gnc_lock"]]
    /\ ndispatch' = ndispatch + 1
    /\ phase' = "serving"
    /\ loadCall' = NoCall
    /\ UNCHANGED <<credential_pool, current_credential_index, round_robin_lock,
                   user_project_id, credFile, envArraySet, issued, history, ticks, exchange, xform, route, chat>>

\* A request is handled by a process whose start-up has not run the loader
\* (main.py:36-50 is the one place where the serving process calls it): the
\* handler calls send_gemini_request, which calls get_next_credential.
RequestBeforeLoad(p) ==
    /\ phase = "boot"
    /\ req[p].pc \in {"idle", "done"}
    /\ ndispatch < MaxDispatch
    /\ req' = [req EXCEPT ![p] = [Idle EXCEPT !.pc = "gnc_lock"]]
    /\ ndispatch' = ndispatch + 1
    /\ UNCHANGED <<phase, credential_pool, current_credential_index, round_robin_lock,
                   user_project_id, credFile, envArraySet, issued, history, loadCall,
                   ticks, exchange, xform, route, chat>>

\* auth.py:250: acquire round_robin_lock
Acquire(p) ==
    /\ req[p].pc = "gnc_lock"
    /\ LockFree
    /\ round_robin_lock' = p
    /\ req' = [req EXCEPT ![p].pc = "gnc_locked"]
    /\ UNCHANGED <<phase, credential_pool, current_credential_index, user_project_id,
                   credFile, envArraySet, issued, history, ndispatch, loadCall, ticks, exchange, xform, route, chat>>

\* mutant: the lock is kept when the with-block is left
HeldOn(p) == round_robin_lock

\* the lock is released by whoever leaves the with-block (auth.py:250-258)
Released(p) == IF round_robin_lock = p THEN 0 ELSE round_robin_lock

\* auth.py:251-256: empty pool -> return None; else read the cursor and the
\* record at it (IndexError when the cursor is outside the pool: the
\* exception leaves the with-block and send_gemini_request, status -1)
Draw(p) ==
    /\ req[p].pc = "gnc_locked"
    /\ IF credential_pool = <<>>
       THEN /\ req' = [req EXCEPT ![p].pc = "sgr_creds"]
            /\ round_robin_lock' = Released(p)
            /\ UNCHANGED history
       ELSE IF current_credential_index >= Len(credential_pool)
       THEN /\ req' = [req EXCEPT ![p].pc = "done", ![p].status = -1,
                                  ![p].body = "IndexError"]
            /\ round_robin_lock' = Released(p)
            /\ UNCHANGED history
       ELSE /\ req' = [req EXCEPT ![p].pc = "gnc_advance",
                                  ![p].index = current_credential_index,
                                  ![p].drawn = @ + 1,
                                  ![p].ticket = Len(history) + 1]
            /\ history' = Append(history, current_credential_index)
            /\ UNCHANGED round_robin_lock
    /\ UNCHANGED <<phase, credential_pool, current_credential_index, user_project_id,
                   credFile, envArraySet, issued, ndispatch, loadCall, ticks, exchange, xform, route, chat>>

\* auth.py:258 and the end of the with-block
Advance(p) ==
    /\ req[p].pc = "gnc_advance"
    /\ current_credential_index' = NextIndex(req[p].index, Len(credential_pool))
    /\ round_robin_lock' = Released(p)
    /\ req' = [req EXCEPT ![p].pc = "gnc_expiry"]
    /\ UNCHANGED <<phase, credential_pool, user_project_id, credFile, envArraySet,
                   issued, history, ndispatch, loadCall, ticks, exchange, xform, route, chat>>

\* auth.py:260-265: an expired record with a refresh token is refreshed (the
\* call to the token endpoint is now in flight); any other record is returned
CheckExpiry(p) ==
    /\ req[p].pc = "gnc_expiry"
    /\ IF ShouldRefresh(Rec(p))
       THEN req' = [req EXCEPT ![p].pc = "gnc_refresh",
                               ![p].seen = Snapshot(Rec(p)),
                               ![p].calls = @ \cup {"refresh"}]
       ELSE req' = [req EXCEPT ![p].pc = "sgr_creds",
                               ![p].seen = Snapshot(Rec(p)),
                               ![p].after = Snapshot(Rec(p))]
    /\ UNCHANGED <<phase, credential_pool, current_credential_index, round_robin_lock,
                   user_project_id, credFile, envArraySet, issued, history, ndispatch,
                   loadCall, ticks, exchange, xform, route, chat>>

\* mutant: a refresh resets what the code attached to the record
RefreshedAnew(c, tok) ==
    [c EXCEPT !.token = tok, !.expiry = "future", !.project_id = 0,
              !.onboarding_complete = FALSE]

\* mutant: the new token is stored, the expiry is left as it was
RefreshedTokenOnly(c, tok) == [c EXCEPT !.token = tok]

\* Credentials.refresh on success: a new token and a new expiry, in place
Refreshed(c, tok) == [c EXCEPT !.token = tok, !.expiry = "future"]

\* mutant: after a failed refresh the next record is drawn instead
RetryAfterRefresh(ok) == IF ok THEN "sgr_creds" ELSE "gnc_lock"

\* mutant: a failed refresh ends the dispatch (fail-fast)
FailFastAfterRefresh(ok) == IF ok THEN "sgr_creds" ELSE "done"

\* auth.py:266-270: after the refresh call, successful or not, the function
\* goes on to `return creds`
NextAfterRefresh(ok) == "sgr_creds"

\* auth.py:265-270: the refresh call returns (a token is delivered) or raises
\* (the except clause logs it); either way the record is returned
RefreshReturn(p) ==
    /\ req[p].pc = "gnc_refresh"
    /\ \E ok \in BOOLEAN :
         /\ ok => issued < MaxIssued
         /\ credential_pool' =
              IF ok THEN [credential_pool EXCEPT ![req[p].index + 1] = Refreshed(@, issued + 2)]
              ELSE credential_pool
         /\ issued' = IF ok THEN issued + 1 ELSE issued
         /\ req' = [req EXCEPT ![p].pc = NextAfterRefresh(ok),
                               ![p].refresh = IF ok THEN "ok" ELSE "fail",
                               ![p].after = Snapshot(credential_pool'[req[p].index + 1])]
    /\ UNCHANGED <<phase, current_credential_index, round_robin_lock, user_project_id,
                   credFile, envArraySet, history, ndispatch, loadCall, ticks, exchange, xform, route, chat>>

\* time passes: the expiry of a record comes to lie in the past
Tick ==
    /\ phase = "serving"
    /\ ticks < MaxTicks
    /\ ticks' = ticks + 1
    /\ \E k \in 1..Len(credential_pool) :
         /\ credential_pool[k].expiry = "future"
         /\ credential_pool' = [credential_pool EXCEPT ![k].expiry = "past"]
    /\ UNCHANGED <<phase, current_credential_index, round_robin_lock, user_project_id,
                   credFile, envArraySet, issued, req, history, ndispatch, loadCall,
                   exchange, xform, route, chat>>

\* ------------------------------------------------- send_gemini_request
\* what the upstream makes of the bearer token a call carries: it rejects a
\* token whose expiry has passed
Sent(c) == IF Expired(c) THEN "stale" ELSE "live"

\* google_api_client.py:114
NoUsableCredential(r, pool) == r.drawn = 0 \/ pool[r.index + 1].token = 0

\* mutant: the project id on the record is not looked at
ProjectNeverCached(c) == FALSE

\* google_api_client.py:35
ProjectCached(c) == c.project_id # 0

\* google_api_client.py:74: onboard_user returns at once for an onboarded record
OnboardSkipped(c) == c.onboarding_complete

\* google_api_client.py:127-157: onboard_user issues its call unless the
\* record is onboarded already; then the generation call is issued
AfterProject(r, c) ==
    IF OnboardSkipped(c)
    THEN [r EXCEPT !.pc = "gen_call", !.calls = @ \cup {"generate"}, !.sent = Sent(c)]
    ELSE [r EXCEPT !.pc = "onb_call", !.calls = @ \cup {"onboard"}, !.sent = Sent(c)]

\* the activation once get_next_credential's result has been taken over: the
\* observation of the record at draw and at return is dropped
Returned(r) == [r EXCEPT !.seen = Idle.seen, !.after = Idle.after, !.ticket = 0]

\* mutant: the missing credential is reported as an upstream auth error
NoCredentialsAs401 == [status |-> 401, body |-> "no_credentials"]

\* google_api_client.py:115-117
NoCredentialsResponse == [status |-> 500, body |-> "no_credentials"]

\* google_api_client.py:114-122 with get_user_project_id 35-45: no record or
\* an empty token -> 500; a cached project id is used; else the project
\* listing is requested
CheckCreds(p) ==
    /\ req[p].pc = "sgr_creds"
    /\ IF NoUsableCredential(req[p], credential_pool)
       THEN req' = [req EXCEPT ![p] = [Returned(@) EXCEPT
                                          !.pc = "done",
                                          !.status = NoCredentialsResponse.status,
                                          !.body = NoCredentialsResponse.body]]
       ELSE IF ProjectCached(Rec(p))
       THEN req' = [req EXCEPT ![p] = AfterProject([Returned(@) EXCEPT
                                                       !.proj = Rec(p).project_id],
                                                   Rec(p))]
       ELSE req' = [req EXCEPT ![p] = [Returned(@) EXCEPT !.pc = "proj_call",
                                                        !.calls = @ \cup {"discover"},
                                                        !.sent = Sent(Rec(p))]]
    /\ UNCHANGED <<phase, credential_pool, current_credential_index, round_robin_lock,
                   user_project_id, credFile, envArraySet, issued, history, ndispatch,
                   loadCall, ticks, exchange, xform, route, chat>>

\* answers of the project listing: an error, or a list of project ids
DiscoveryReplies ==
    {[ok |-> FALSE, projects |-> <<>>]}
    \cup {[ok |-> TRUE, projects |-> l] : l \in {<<>>, <<4, 3>>}}

\* google_api_client.py:60: the record is written to the file unless the
\* GEMINI_CREDENTIALS variable is set
PersistOnDiscovery == ~envArraySet

\* google_api_client.py:45-66 and 120-127: the listing returns
\* mutant: a failed project resolution is answered as a client error
NoProjectAs404 == [status |-> 404, body |-> "no_project"]

\* google_api_client.py:121-122
NoProjectResponse == [status |-> 500, body |-> "no_project"]

\* google_api_client.py:45-66: the listing, one of replies, returns: the
\* first project is stored on the record (56) whatever the record holds by
\* then
ProjReturnWith(p, replies) ==
    /\ req[p].pc = "proj_call"
    /\ \E reply \in replies :
         /\ req[p].sent = "stale" => ~reply.ok
         /\ IF reply.ok /\ reply.projects # <<>>
            THEN LET pid == reply.projects[1]
                     c   == [Rec(p) EXCEPT !.project_id = pid]
                 IN /\ credential_pool' = [credential_pool EXCEPT ![req[p].index + 1] = c]
                    /\ credFile' = IF PersistOnDiscovery THEN <<SavedCredential(c, pid)>>
                                   ELSE credFile
                    /\ req' = [req EXCEPT ![p] = AfterProject([@ EXCEPT !.proj = pid], c)]
            ELSE /\ req' = [req EXCEPT ![p].pc = "done", ![p].sent = "none",
                                       ![p].status = NoProjectResponse.status,
                                       ![p].body = NoProjectResponse.body]
                 /\ UNCHANGED <<credential_pool, credFile>>
    /\ UNCHANGED <<phase, current_credential_index, round_robin_lock, user_project_id,
                   envArraySet, issued, history, ndispatch, loadCall, ticks, exchange, xform, route, chat>>

ProjReturn(p) == ProjReturnWith(p, DiscoveryReplies)

\* answers of the onboarding call: a status, or 0 for a transport exception
OnboardReplies == {200, 409, 401, 0}

\* mutant: 409 is taken for a failure
OnboardMarksOkOnly(status) == 200 <= status /\ status < 400

\* google_api_client.py:87-95: 409 and every ok status mark the record
OnboardMarks(status) == status = 409 \/ (200 <= status /\ status < 400)

\* mutant: a failed onboarding call ends the dispatch
FailOnOnboardError(status) == IF OnboardMarks(status) THEN "gen_call" ELSE "done"

\* google_api_client.py:97-98 and 127-130: onboard_user swallows every
\* exception and returns nothing; send_gemini_request goes on
NextAfterOnboard(status) == "gen_call"

\* google_api_client.py:85-98 and 130-157: the onboarding call returns,
\* whatever its outcome the generation call is issued
OnboardReturn(p) ==
    /\ req[p].pc = "onb_call"
    /\ \E status \in OnboardReplies :
         /\ req[p].sent = "stale" => status \in {401, 0}
         /\ credential_pool' =
              IF OnboardMarks(status)
              THEN [credential_pool EXCEPT ![req[p].index + 1].onboarding_complete = TRUE]
              ELSE credential_pool
         /\ req' = [req EXCEPT ![p].pc = NextAfterOnboard(status),
                               ![p].calls = @ \cup {"generate"},
                               ![p].onb = status,
                               ![p].sent = Sent(Rec(p))]
    /\ UNCHANGED <<phase, current_credential_index, round_robin_lock, user_project_id,
                   credFile, envArraySet, issued, history, ndispatch, loadCall, ticks, exchange, xform, route, chat>>

\* answers of the generation endpoint: status 0 is a transport failure
\* (requests raises), else an HTTP status and the shape of its body
OkBodies == {"response_obj", "response_null", "no_response", "not_json"}
ErrBodies == {"error_obj", "error_not_obj", "no_error", "not_json"}
GenReplies ==
    {[status |-> 0, body |-> "transport"]}
    \cup {[status |-> 200, body |-> b] : b \in OkBodies}
    \cup {[status |-> s, body |-> b] : s \in {401}, b \in ErrBodies}

\* google_api_client.py:279-329 _handle_non_streaming_response; an
\* AttributeError raised on an `error` that is no object is not caught at
\* 321 and reaches the except clause at 166-172
HandleNonStreaming(reply) ==
    IF reply.status = 200
    THEN CASE reply.body = "response_obj" -> [status |-> 200, body |-> "inner"]
           [] reply.body \in {"response_null", "no_response"} ->
                                              [status |-> 200, body |-> "null"]
           [] OTHER -> [status |-> 200, body |-> "raw"]
    ELSE CASE reply.body = "error_obj" -> [status |-> reply.status, body |-> "error_envelope"]
           [] reply.body = "error_not_obj" -> [status |-> 500, body |-> "unexpected_error"]
           [] OTHER -> [status |-> reply.status, body |-> "raw"]

\* google_api_client.py:174-277 _handle_streaming_response
HandleStreaming(reply) ==
    IF reply.status # 200
    THEN [status |-> reply.status, body |-> "error_event"]
    ELSE [status |-> 200, body |-> "stream"]

\* google_api_client.py:159-165
TransportFailure == [status |-> 500, body |-> "request_failed"]

\* google_api_client.py:137-172: the generation call returns or raises.
\* is_streaming, an argument of send_gemini_request, is read at 137 first;
\* it is drawn here, where its value first makes a difference.
GenReturn(p) ==
    /\ req[p].pc = "gen_call"
    /\ \E reply \in GenReplies, is_streaming \in BOOLEAN :
         /\ req[p].sent = "stale" => reply.status \in {401, 0}
         /\ LET out == IF reply.status = 0 THEN TransportFailure
                       ELSE IF is_streaming THEN HandleStreaming(reply)
                       ELSE HandleNonStreaming(reply)
            IN req' = [req EXCEPT ![p].pc = "done", ![p].streaming = is_streaming,
                                  ![p].sent = "none", ![p].onb = -1,
                                  ![p].status = out.status, ![p].body = out.body]
    /\ UNCHANGED <<phase, credential_pool, current_credential_index, round_robin_lock,
                   user_project_id, credFile, envArraySet, issued, history, ndispatch,
                   loadCall, ticks, exchange, xform, route, chat>>

\* a later, wholesale reload of the pool, between requests
Reload ==
    /\ Serving
    /\ \A p \in Procs : req[p].pc \in {"idle", "done"}
    /\ \E cfg \in ReloadConfigs : DoLoad(cfg, FALSE)
    /\ phase' = "serving"

\* the steps of a dispatch other than the return of the project listing
OtherSteps(p) ==
    \/ Begin(p) \/ Acquire(p) \/ Draw(p) \/ Advance(p) \/ CheckExpiry(p)
    \/ RefreshReturn(p) \/ CheckCreds(p) \/ OnboardReturn(p) \/ GenReturn(p)

Dispatch(p) == OtherSteps(p) \/ ProjReturn(p)

\* the proxy as it starts to serve: main.py's startup_event has loaded the
\* pool from one of ServeConfigs and no request has been handled yet (a
\* credential file is there at start in the environments that read it)
Init ==
    \E cfg \in ServeConfigs, file \in FileInits :
        \E r \in {RunLoader(cfg, file, 0)} :
           /\ file # <<>> => cfg.numbered = <<>> /\ ~cfg.array.set
           /\ phase = "serving"
           /\ credential_pool = r.pool
           /\ current_credential_index = 0
           /\ round_robin_lock = 0
           /\ user_project_id = (IF r.pool # <<>> THEN r.pool[1].project_id ELSE 0)
           /\ credFile = r.file
           /\ envArraySet = cfg.array.set
           /\ issued = r.issued
           /\ req = [p \in Procs |-> Idle]
           /\ history = <<>>
           /\ ndispatch = 0
           /\ loadCall = NoCall
           /\ ticks = 0
           /\ exchange = NoExchange
           /\ xform = NoXform
           /\ route = NoRoute
           /\ chat = NoChat

\* ---------------------------------------------------------- specifications
\* the serving proxy
Next == Tick \/ \E p \in Procs : Dispatch(p)

Spec == Init /\ [][Next]_vars

\* the serving proxy, one caller at a time, with the pool reloaded at any
\* time between two requests
NextReload == Reload \/ Tick \/ Dispatch(1)

SpecReload == Init /\ [][NextReload]_vars

\* google_api_client.py:101, 46, 84, 154-157: send_gemini_request is a plain
\* def and its network calls are blocking calls of `requests`; called by a
\* coroutine of the server's event loop (gemini_routes.py:28, 56) it keeps
\* the loop's one thread from its first statement to its return, so no other
\* coroutine runs while a call of it is under way
LoopFree(p) == \A q \in Procs \ {p} : req[q].pc \in {"idle", "done"}

\* one step of a call of send_gemini_request made on the event loop
OnLoop(p) == LoopFree(p) /\ Dispatch(p)

\* the serving proxy with its callers on one event loop
NextLoop == Tick \/ \E p \in Procs : OnLoop(p)

SpecLoop == Init /\ [][NextLoop]_vars

\* answers of the project listing of an account whose projects change
\* between two calls
ChangingListings == DiscoveryReplies \cup {[ok |-> TRUE, projects |-> <<3, 4>>]}

\* the serving proxy with one record in its pool, read from the numbered
\* variables, and a project listing that changes
InitProject == Init /\ Len(credential_pool) = 1 /\ credFile = <<>> /\ ~envArraySet

NextProject ==
    Tick \/ \E p \in Procs : OtherSteps(p) \/ ProjReturnWith(p, ChangingListings)

SpecProject == InitProject /\ [][NextProject]_vars

\* requests handled before any load: get_next_credential (auth.py:246-253)
\* on the pool as the module's import left it, with no credential variable
\* set and the credential file as found
NextUnbuilt ==
    \E p \in Procs : RequestBeforeLoad(p) \/ Acquire(p) \/ Draw(p) \/ CheckCreds(p)

SpecUnbuilt == InitBoot /\ [][NextUnbuilt]_vars

\* the two start-up paths alone, on every environment
NextLoad == StartupEvent \/ RunMain

SpecLoad == InitBoot /\ [][NextLoad]_vars

\* ------------------------------------------- one generation call, close up
\* The answer of the generation endpoint, the Response built from it and the
\* stream handed to the client, for one call; the pool plays no part.

\* the answers looked at: those of GenReplies and a second error status
UpstreamReplies ==
    GenReplies \cup {[status |-> 404, body |-> b] : b \in ErrBodies}

\* google_api_client.py:219-240: the lines resp.iter_lines() can deliver.
\* "empty" is a keep-alive; "no_prefix" does not start with `data: `;
\* "data_not_json" is `data: ` and text json.loads rejects; "data_response_a"
\* and "data_response_b" are `data: ` and an object with a `response` field
\* (of value a, b); "data_no_response" is `data: ` and an object without
\* one; "data_scalar" is `data: ` and JSON that is no container (null, 5).
LineKinds ==
    {"empty", "no_prefix", "data_not_json", "data_response_a", "data_response_b",
     "data_no_response", "data_scalar"}

\* the streams of up to MaxLines lines
Streams == SeqsUpTo(LineKinds, MaxLines)

\* an event of the stream handed to the client: `data: ` and a JSON text
DataEvent(payload) == [type |-> "data", code |-> 0, payload |-> payload]
ErrorObject(code, message) == [type |-> "error", code |-> code, payload |-> message]

\* google_api_client.py:180-186: the message of the error event
ErrorMessage(reply) ==
    IF reply.body = "error_obj" THEN "upstream_message" ELSE "default_message"

\* mutant: the error event reports 500 whatever the upstream's status
ErrorEventAs500(reply) == ErrorObject(500, ErrorMessage(reply))

\* google_api_client.py:189-197 error_generator: its one event
ErrorEvent(reply) == ErrorObject(reply.status, ErrorMessage(reply))

\* google_api_client.py:220-240: what stream_generator does with one line:
\* the events it yields and whether it goes on to the next line.  On a
\* JSON scalar `"response" in obj` raises TypeError, which the clause at
\* 252-261 turns into an error event, and the generator ends.
RelayOne(line) ==
    CASE line \in {"empty", "no_prefix", "data_not_json"} ->
             [events |-> <<>>, goes_on |-> TRUE]
      [] line = "data_response_a" -> [events |-> <<DataEvent("a")>>, goes_on |-> TRUE]
      [] line = "data_response_b" -> [events |-> <<DataEvent("b")>>, goes_on |-> TRUE]
      [] line = "data_no_response" -> [events |-> <<DataEvent("whole_object")>>,
                                       goes_on |-> TRUE]
      [] line = "data_scalar" -> [events |-> <<ErrorObject(500, "exception")>>,
                                  goes_on |-> FALSE]

\* everything but the exchange
pool_vars ==
    <<phase, credential_pool, current_credential_index, round_robin_lock,
      user_project_id, credFile, envArraySet, issued, req, history, ndispatch,
      loadCall, ticks, xform, route, chat>>

\* google_api_client.py:152-172: requests.post returns or raises and
\* send_gemini_request returns its Response
UpstreamAnswers ==
    /\ exchange.stage = "none"
    /\ \E reply \in UpstreamReplies, is_streaming \in BOOLEAN, lines \in Streams :
         /\ (reply.status # 200 \/ ~is_streaming) => lines = <<>>
         /\ exchange' =
              [NoExchange EXCEPT
                 !.streaming = is_streaming,
                 !.reply = reply,
                 !.lines = lines,
                 !.response = IF reply.status = 0 THEN TransportFailure
                              ELSE IF is_streaming THEN HandleStreaming(reply)
                              ELSE HandleNonStreaming(reply),
                 !.stage = IF reply.status = 0 \/ ~is_streaming THEN "returned"
                           ELSE IF reply.status = 200 THEN "relaying"
                           ELSE "error_stream"]
    /\ UNCHANGED pool_vars

\* google_api_client.py:189-197: the server iterates error_generator
ErrorGenerator ==
    /\ exchange.stage = "error_stream"
    /\ exchange' = [exchange EXCEPT !.stage = "ended",
                                    !.events = <<ErrorEvent(exchange.reply)>>]
    /\ UNCHANGED pool_vars

\* google_api_client.py:219-240: stream_generator takes the next line.  The
\* loop is a plain `for` over resp.iter_lines() and looks at nothing but the
\* line; after a line that yields an event the generator waits at its yield
\* (231, 235) or at `await asyncio.sleep(0)` (232); a line that ends the
\* generator (252-261) leaves `with resp:` (218), which closes resp.
RelayLine ==
    /\ exchange.stage = "relaying"
    /\ exchange.pos < Len(exchange.lines)
    /\ \E r \in {RelayOne(exchange.lines[exchange.pos + 1])} :
         exchange' = [exchange EXCEPT !.pos = @ + 1,
                                     !.events = @ \o r.events,
                                     !.suspended = r.goes_on /\ r.events # <<>>,
                                     !.closed = ~r.goes_on,
                                     !.stage = IF r.goes_on THEN "relaying" ELSE "ended"]
    /\ UNCHANGED pool_vars

\* google_api_client.py:218-219: the upstream stream is at its end, the
\* loop and `with resp:` are left
RelayEnd ==
    /\ exchange.stage = "relaying"
    /\ exchange.pos = Len(exchange.lines)
    /\ exchange' = [exchange EXCEPT !.stage = "ended", !.suspended = FALSE,
                                    !.closed = TRUE]
    /\ UNCHANGED pool_vars

\* mutant: a failed read ends the stream with no event
ReadErrorSilent == <<>>

\* google_api_client.py:242-251: the event yielded for a RequestException
ReadErrorEvents == <<ErrorObject(502, "upstream_request_failed")>>

\* google_api_client.py:219, 242-251: after the lines delivered,
\* resp.iter_lines() raises a requests exception (connection broken, chunk
\* encoding, read timeout): `with resp:` is left, the except clause yields
\* its event and the generator ends
ReadFails ==
    /\ exchange.stage = "relaying"
    /\ exchange.pos = Len(exchange.lines)
    /\ exchange' = [exchange EXCEPT !.stage = "ended", !.failed = TRUE,
                                    !.suspended = FALSE, !.closed = TRUE,
                                    !.events = @ \o ReadErrorEvents]
    /\ UNCHANGED pool_vars

\* the inbound client goes away while the stream is being relayed; nothing
\* in stream_generator (216-241) looks at the inbound connection
ClientDisconnects ==
    /\ exchange.stage = "relaying"
    /\ exchange.pos > 0
    /\ ~exchange.gone
    /\ exchange' = [exchange EXCEPT !.gone = TRUE]
    /\ UNCHANGED pool_vars

\* google_api_client.py:218, 231-235: the server, having seen the client go,
\* cancels the generator where it waits: the exception raised at the yield
\* or at sleep(0) is no Exception (252), it leaves `with resp:` and resp is
\* closed
Cancelled ==
    /\ exchange.stage = "relaying"
    /\ exchange.gone /\ exchange.suspended
    /\ exchange' = [exchange EXCEPT !.stage = "ended", !.suspended = FALSE,
                                    !.closed = TRUE]
    /\ UNCHANGED pool_vars

InitResponse == InitBoot /\ credFile = <<>>

NextResponse ==
    \/ UpstreamAnswers \/ ErrorGenerator \/ RelayLine \/ RelayEnd
    \/ ReadFails \/ ClientDisconnects \/ Cancelled

SpecResponse == InitResponse /\ [][NextResponse]_vars

\* ------------------------------------------------- format transformers
\* A text is a sequence of pieces, <<>> the empty string; concatenation of
\* strings is \o.

\* the separator of openai_transformers.py:33
Separator == <<"\n\n">>

MessageTexts == {<<>>, <<"S">>, <<"U">>}

\* OpenAIChatMessage with a string content
Messages == [role : {"system", "user", "assistant"}, content : MessageTexts]

MessageLists == SeqsUpTo(Messages, MaxMessages)

\* openai_transformers.py:25-28: the content of a leading system message,
\* <<>> = None; a leading system message is popped off the copy
SystemPromptContent(messages) ==
    IF messages # <<>> /\ messages[1].role = "system"
    THEN <<messages[1].content>> ELSE <<>>

AfterPop(messages) ==
    IF messages # <<>> /\ messages[1].role = "system" THEN Tail(messages) ELSE messages

\* mutant: the two texts are joined with nothing between them
MergedTextNoSeparator(system_prompt, user_text) == system_prompt \o user_text

\* openai_transformers.py:33
MergedText(system_prompt, user_text) == system_prompt \o Separator \o user_text

\* openai_transformers.py:30-33: a system prompt that is neither None nor
\* empty is put in front of the first remaining message if that is a user
\* message
MergeSystemPrompt(messages) ==
    IF /\ SystemPromptContent(messages) # <<>>
       /\ SystemPromptContent(messages)[1] # <<>>
       /\ AfterPop(messages) # <<>>
       /\ AfterPop(messages)[1].role = "user"
    THEN [AfterPop(messages) EXCEPT
            ![1].content = MergedText(SystemPromptContent(messages)[1], @)]
    ELSE AfterPop(messages)

\* mutant: only assistant is renamed, any other role is passed on
GeminiRoleVerbatim(role) == IF role = "assistant" THEN "model" ELSE role

\* openai_transformers.py:43
GeminiRole(role) == IF role = "assistant" THEN "model" ELSE "user"

\* openai_transformers.py:42-58: one content entry per message of the copy
Contents(working) ==
    [i \in 1..Len(working) |->
        [role |-> GeminiRole(working[i].role), text |-> working[i].content]]

\* openai_transformers.py:23: the function works on a deep copy, so the
\* caller's list is what it was
CallerMessages(original, working) == original

\* openai_transformers.py:20-58 openai_request_to_gemini: the contents built
\* and the caller's messages afterwards
OpenAIRequestToGemini(messages) ==
    [contents |-> Contents(MergeSystemPrompt(messages)),
     after |-> CallerMessages(messages, MergeSystemPrompt(messages))]

\* the values of a candidate's finishReason, <<>> = the key is absent
FinishReasons ==
    {<<>>} \cup {<<r>> : r \in {"STOP", "MAX_TOKENS", "SAFETY", "RECITATION", "OTHER"}}

\* the text of a part; a part without `text` counts as the empty text (95)
PartTexts == {<<>>, <<"a">>}

Candidates == [parts : SeqsUpTo(PartTexts, MaxParts), finishReason : FinishReasons]

CandidateLists == SeqsUpTo(Candidates, MaxCandidates)

\* mutant: RECITATION is mapped like an unknown reason
MapFinishReasonStopLength(gemini_reason) ==
    CASE gemini_reason = <<"STOP">> -> <<"stop">>
      [] gemini_reason = <<"MAX_TOKENS">> -> <<"length">>
      [] gemini_reason = <<"SAFETY">> -> <<"content_filter">>
      [] OTHER -> <<>>

\* openai_transformers.py:125-127 _map_finish_reason, <<>> = None
MapFinishReason(gemini_reason) ==
    CASE gemini_reason = <<"STOP">> -> <<"stop">>
      [] gemini_reason = <<"MAX_TOKENS">> -> <<"length">>
      [] gemini_reason \in {<<"SAFETY">>, <<"RECITATION">>} -> <<"content_filter">>
      [] OTHER -> <<>>

\* openai_transformers.py:95, 112: "".join of the parts' texts
RECURSIVE ContentText(_)
ContentText(parts) ==
    IF parts = <<>> THEN <<>> ELSE Head(parts) \o ContentText(Tail(parts))

\* openai_transformers.py:93-101: the choice built for candidate k; cand
\* records which candidate it was built from
AggregateChoice(k, candidate) ==
    [cand |-> k,
     content |-> <<ContentText(candidate.parts)>>,
     finish_reason |-> MapFinishReason(candidate.finishReason)]

\* openai_transformers.py:90-105 gemini_response_to_openai: its choices
GeminiResponseToOpenAI(candidates) ==
    [k \in 1..Len(candidates) |-> AggregateChoice(k, candidates[k])]

\* openai_transformers.py:113: the delta's content, <<>> = None
DeltaContent(content_text) == IF content_text # <<>> THEN <<content_text>> ELSE <<>>

\* mutant: every candidate gets a choice
ChoiceEmittedAlways(candidate) == TRUE

\* openai_transformers.py:114
ChoiceEmitted(candidate) ==
    \/ DeltaContent(ContentText(candidate.parts)) # <<>>
    \/ candidate.finishReason # <<>>

\* openai_transformers.py:115-119
StreamChoice(k, candidate) ==
    [cand |-> k,
     content |-> DeltaContent(ContentText(candidate.parts)),
     finish_reason |-> MapFinishReason(candidate.finishReason)]

\* openai_transformers.py:110-119: the loop over the candidates from k on
RECURSIVE StreamChoices(_, _)
StreamChoices(candidates, k) ==
    IF k > Len(candidates) THEN <<>>
    ELSE (IF ChoiceEmitted(candidates[k])
          THEN <<StreamChoice(k, candidates[k])>> ELSE <<>>)
         \o StreamChoices(candidates, k + 1)

\* openai_transformers.py:107-123 gemini_stream_chunk_to_openai: its choices
GeminiStreamChunkToOpenAI(candidates) == StreamChoices(candidates, 1)

\* everything but xform
rest_of_xform ==
    <<phase, credential_pool, current_credential_index, round_robin_lock,
      user_project_id, credFile, envArraySet, issued, req, history, ndispatch,
      loadCall, ticks, exchange, route, chat>>

\* openai_routes.py:33: the chat-completion route transforms a request
TransformRequest ==
    /\ xform.stage = "none"
    /\ \E messages \in MessageLists :
         \E r \in {OpenAIRequestToGemini(messages)} :
            xform' = [xform EXCEPT !.stage = "request", !.messages = messages,
                                  !.contents = r.contents, !.after = r.after]
    /\ UNCHANGED rest_of_xform

\* openai_routes.py:69: the route transforms a unary upstream response
TransformResponse ==
    /\ xform.stage = "none"
    /\ \E candidates \in CandidateLists :
         xform' = [xform EXCEPT !.stage = "aggregate", !.candidates = candidates,
                               !.choices = GeminiResponseToOpenAI(candidates)]
    /\ UNCHANGED rest_of_xform

\* openai_routes.py:95: the route transforms one chunk of a stream
TransformChunk ==
    /\ xform.stage = "none"
    /\ \E candidates \in CandidateLists :
         xform' = [xform EXCEPT !.stage = "chunk", !.candidates = candidates,
                               !.choices = GeminiStreamChunkToOpenAI(candidates)]
    /\ UNCHANGED rest_of_xform

NextTransform == TransformRequest \/ TransformResponse \/ TransformChunk

SpecTransform == InitResponse /\ [][NextTransform]_vars

\* -------------------------------------------------------- route handlers
\* A path segment is a sequence of pieces; ":" is the colon, the other
\* pieces hold neither a colon nor a slash; <<"models">> is the segment
\* `models`, <<>> the empty segment.
Segments ==
    {<<>>, <<"v1beta">>, <<"models">>, <<"gemini-pro">>,
     <<"gemini-pro", ":", "generateContent">>,
     <<"gemini-pro", ":", "streamGenerateContent">>,
     <<":", "generateContent">>, <<"gemini-pro", ":", "x", ":", "y">>}

\* full_path.split('/') (gemini_routes.py:67) has at least one segment
Paths == SeqsUpTo(Segments, MaxSegments) \ {<<>>}

\* gemini_routes.py:69 parts.index('models'): the first index, 0 = ValueError
ModelsIndex(parts) ==
    IF \E i \in 1..Len(parts) : parts[i] = <<"models">>
    THEN CHOOSE i \in 1..Len(parts) :
            /\ parts[i] = <<"models">>
            /\ \A j \in 1..(i - 1) : parts[j] # <<"models">>
    ELSE 0

\* gemini_routes.py:72-73 model_name.split(':')[0]
RECURSIVE BeforeColon(_)
BeforeColon(segment) ==
    IF segment = <<>> \/ Head(segment) = ":" THEN <<>>
    ELSE <<Head(segment)>> \o BeforeColon(Tail(segment))

\* mutant: the segment is returned whole
WholeSegment(segment) == segment

\* gemini_routes.py:71-74
ModelName(segment) == BeforeColon(segment)

\* gemini_routes.py:66-77 _extract_model_from_path: <<>> = None, else <<name>>
ExtractModelFromPath(parts) ==
    IF ModelsIndex(parts) # 0 /\ ModelsIndex(parts) + 1 <= Len(parts)
    THEN <<ModelName(parts[ModelsIndex(parts) + 1])>>
    ELSE <<>>

\* gemini_routes.py:45 `not model_name`: None or the empty string
NoModelName(model_name) == model_name = <<>> \/ model_name[1] = <<>>

\* gemini_routes.py:42 "stream" in full_path.lower()
IsStreamingPath(parts) ==
    \E i \in 1..Len(parts) : \E j \in 1..Len(parts[i]) :
        parts[i][j] = "streamGenerateContent"

\* gemini_routes.py:17, 27: GET v1beta/models goes to gemini_list_models,
\* declared before the catch-all route
ListModelsRoute(method, parts) ==
    method = "GET" /\ parts = <<<<"v1beta">>, <<"models">>>>

\* gemini_routes.py:56, openai_routes.py:40: the keywords and positions the
\* handlers call send_gemini_request with
CallArguments == {"payload", "is_streaming", "request"}

\* google_api_client.py:101: the parameters of send_gemini_request
Parameters == {"payload", "is_streaming"}

\* the call binds its arguments, else Python raises TypeError before the
\* function is entered
CallBinds == CallArguments \subseteq Parameters

\* google_api_client.py:101: send_gemini_request is a plain def, what it
\* returns is a Response, and `await` on a Response raises TypeError
ResultAwaitable == FALSE

\* the Responses send_gemini_request can have ready for a well-formed call
DispatcherResponses ==
    {[status |-> 200, body |-> "inner"], [status |-> 429, body |-> "raw"],
     [status |-> 500, body |-> "raw"]}

\* gemini_routes.py:56, openai_routes.py:40 `await send_gemini_request(...)`:
\* whether the function was entered, whether the expression raised, and
\* its value
AwaitSend(dispatcher) ==
    IF ~CallBinds
    THEN [invoked |-> FALSE, raised |-> TRUE, response |-> [status |-> -1, body |-> "none"]]
    ELSE IF ~ResultAwaitable
    THEN [invoked |-> TRUE, raised |-> TRUE, response |-> [status |-> -1, body |-> "none"]]
    ELSE [invoked |-> TRUE, raised |-> FALSE, response |-> dispatcher]

\* gemini_routes.py:40-63 gemini_proxy
GeminiProxyResponse(parts, body, dispatcher) ==
    IF NoModelName(ExtractModelFromPath(parts))
    THEN [invoked |-> FALSE, status |-> 400, out |-> "no_model"]
    ELSE IF body = "not_json"
    THEN [invoked |-> FALSE, status |-> 400, out |-> "invalid_json"]
    ELSE IF AwaitSend(dispatcher).raised
    THEN [invoked |-> AwaitSend(dispatcher).invoked, status |-> 500, out |-> "proxy_error"]
    ELSE [invoked |-> TRUE, status |-> AwaitSend(dispatcher).response.status,
          out |-> AwaitSend(dispatcher).response.body]

\* openai_routes.py:76-77, 42-70: what the chat-completion route makes of
\* the dispatcher's Response
ChatBody(response) ==
    IF response.status # 200 THEN "error_envelope" ELSE "chat_completion"

\* openai_routes.py:32-54 openai_chat_completions: the call at 40 is outside
\* every try, an exception it raises reaches the server, which answers 500
OpenAIChatResponse(dispatcher) ==
    IF AwaitSend(dispatcher).raised
    THEN [invoked |-> AwaitSend(dispatcher).invoked, status |-> 500,
          out |-> "internal_server_error"]
    ELSE [invoked |-> TRUE, status |-> AwaitSend(dispatcher).response.status,
          out |-> ChatBody(AwaitSend(dispatcher).response)]

\* everything but route
rest_of_route ==
    <<phase, credential_pool, current_credential_index, round_robin_lock,
      user_project_id, credFile, envArraySet, issued, req, history, ndispatch,
      loadCall, ticks, exchange, xform, chat>>

\* auth.py:51-85 authenticate_user raises HTTPException(401): no handler runs
Unauthenticated ==
    /\ route.stage = "none"
    /\ \E method \in {"GET", "POST"}, parts \in Paths :
         route' = [route EXCEPT !.stage = "answered", !.handler = "authenticate_user",
                               !.method = method, !.path = parts,
                               !.status = 401, !.out = "unauthenticated"]
    /\ UNCHANGED rest_of_route

\* gemini_routes.py:17-25 gemini_list_models
GeminiListModels ==
    /\ route.stage = "none"
    /\ \E method \in {"GET"}, parts \in Paths :
         /\ ListModelsRoute(method, parts)
         /\ route' = [route EXCEPT !.stage = "answered", !.handler = "gemini_list_models",
                                  !.auth = TRUE, !.method = method, !.path = parts,
                                  !.status = 200, !.out = "models"]
    /\ UNCHANGED rest_of_route

\* gemini_routes.py:27-63 gemini_proxy, for an authenticated request on any
\* other path
GeminiProxy ==
    /\ route.stage = "none"
    /\ \E method \in {"GET", "POST"}, parts \in Paths,
          body \in {"empty", "json", "not_json"}, dispatcher \in DispatcherResponses :
         /\ ~ListModelsRoute(method, parts)
         /\ \E r \in {GeminiProxyResponse(parts, body, dispatcher)} :
               route' = [route EXCEPT !.stage = "answered", !.handler = "gemini_proxy",
                                     !.auth = TRUE, !.method = method, !.path = parts,
                                     !.body = body,
                                     !.model = ExtractModelFromPath(parts),
                                     !.dispatcher = dispatcher,
                                     !.invoked = r.invoked, !.status = r.status,
                                     !.out = r.out]
    /\ UNCHANGED rest_of_route

\* openai_routes.py:26-77 openai_chat_completions, for an authenticated
\* request whose body the transformer accepts
OpenAIChatCompletions ==
    /\ route.stage = "none"
    /\ \E dispatcher \in DispatcherResponses :
         \E r \in {OpenAIChatResponse(dispatcher)} :
            route' = [route EXCEPT !.stage = "answered",
                                  !.handler = "openai_chat_completions",
                                  !.auth = TRUE, !.method = "POST", !.body = "json",
                                  !.dispatcher = dispatcher,
                                  !.invoked = r.invoked, !.status = r.status,
                                  !.out = r.out]
    /\ UNCHANGED rest_of_route

NextRoutes == Unauthenticated \/ GeminiListModels \/ GeminiProxy \/ OpenAIChatCompletions

\* one request reaches the serving proxy
SpecRoutes == Init /\ [][NextRoutes]_vars

\* ---------------------------------------- the chat-completion stream
\* A JSON value of the event stream as far as the two generators look at
\* it: null, or an object with its top-level keys; candidates is the list
\* under `candidates` of the object (of the object under its `response` key
\* where it has one).
JsonNull == [null |-> TRUE, keys |-> {}, candidates |-> <<>>]

JsonObject(keys, candidates) == [null |-> FALSE, keys |-> keys, candidates |-> candidates]

\* candidates with text, with a finish reason, with neither
ChatCandidates ==
    {[parts |-> <<(<<"a">>)>>, finishReason |-> <<>>],
     [parts |-> <<>>, finishReason |-> <<"STOP">>],
     [parts |-> <<>>, finishReason |-> <<>>]}

\* a `data: ` line of the upstream: wrapped when its object has a `response`
\* key, value is then the value under that key, else the object itself
DataLine(wrapped, value) == [kind |-> "data", wrapped |-> wrapped, value |-> value]

\* the lines looked at: a keep-alive, responses in their envelope (a
\* generation chunk, null, an object that has a `response` key of its own)
\* and an error object without envelope
UpstreamLines ==
    {[kind |-> "empty", wrapped |-> FALSE, value |-> JsonNull]}
    \cup {DataLine(TRUE, JsonObject({"candidates"}, <<c>>)) : c \in ChatCandidates}
    \cup {DataLine(TRUE, JsonNull),
          DataLine(TRUE, JsonObject({"response"}, <<[parts |-> <<(<<"a">>)>>,
                                                     finishReason |-> <<>>]>>)),
          DataLine(FALSE, JsonObject({"error"}, <<>>))}

\* google_api_client.py:220-235: stream_generator yields `data: ` and the
\* value under `response` for a wrapped object, the whole object otherwise
RelayedValues(line) == IF line.kind = "empty" THEN <<>> ELSE <<line.value>>

\* google_api_client.py:219-251: the events of stream_generator for the
\* lines of the upstream, and the error event of the except clause when
\* the read fails after them
RECURSIVE BodyIterator(_, _)
BodyIterator(lines, fails) ==
    IF lines = <<>>
    THEN (IF fails THEN <<JsonObject({"error"}, <<>>)>> ELSE <<>>)
    ELSE RelayedValues(Head(lines)) \o BodyIterator(Tail(lines), fails)

\* the events of the chat-completion stream
ChunkEvent(choices) == [type |-> "chunk", choices |-> choices]
RelayedError == [type |-> "error", choices |-> <<>>]
StreamError == [type |-> "exception", choices |-> <<>>]
DoneMarker == [type |-> "done", choices |-> <<>>]

\* openai_routes.py:86-103: what _openai_stream_generator does with one
\* event of the body: `"response" in gemini_chunk` raises TypeError on
\* null; an object with `response` is translated and json.dumps is called
\* on the model object returned, which raises or not (serialisable); an
\* object with `error` is passed on; any other object yields nothing
TranslateOne(value, serialisable) ==
    CASE value.null -> [out |-> <<>>, raises |-> TRUE]
      [] ~value.null /\ "response" \in value.keys ->
             IF serialisable
             THEN [out |-> <<ChunkEvent(GeminiStreamChunkToOpenAI(value.candidates))>>,
                   raises |-> FALSE]
             ELSE [out |-> <<>>, raises |-> TRUE]
      [] ~value.null /\ "response" \notin value.keys /\ "error" \in value.keys ->
             [out |-> <<RelayedError>>, raises |-> FALSE]
      [] OTHER -> [out |-> <<>>, raises |-> FALSE]

\* mutant: the except clause yields its error event and no marker
OnExceptionNoMarker == <<StreamError>>

\* openai_routes.py:105-109
OnException == <<StreamError, DoneMarker>>

\* everything but chat
rest_of_chat ==
    <<phase, credential_pool, current_credential_index, round_robin_lock,
      user_project_id, credFile, envArraySet, issued, req, history, ndispatch,
      loadCall, ticks, exchange, xform, route>>

\* openai_routes.py:56-60: the dispatcher answered 200 with its stream and
\* the route hands _openai_stream_generator to the server
ChatBegins ==
    /\ chat.stage = "none"
    /\ \E lines \in SeqsUpTo(UpstreamLines, MaxLines), fails \in BOOLEAN :
         chat' = [NoChat EXCEPT !.stage = "reading", !.upstream = lines,
                                !.body = BodyIterator(lines, fails)]
    /\ UNCHANGED rest_of_chat

\* openai_routes.py:82-103 and 105-109: the next event of the body
ChatLine ==
    /\ chat.stage = "reading"
    /\ chat.pos < Len(chat.body)
    /\ \E serialisable \in BOOLEAN :
         \E r \in {TranslateOne(chat.body[chat.pos + 1], serialisable)} :
            chat' = [chat EXCEPT
                       !.pos = @ + 1,
                       !.out = @ \o r.out \o (IF r.raises THEN OnException ELSE <<>>),
                       !.raised = r.raises,
                       !.suspended = ~r.raises /\ r.out # <<>>,
                       !.stage = IF r.raises THEN "ended" ELSE "reading"]
    /\ UNCHANGED rest_of_chat

\* openai_routes.py:104: the body is at its end
ChatEnds ==
    /\ chat.stage = "reading"
    /\ chat.pos = Len(chat.body)
    /\ chat' = [chat EXCEPT !.out = @ \o <<DoneMarker>>, !.suspended = FALSE,
                            !.stage = "ended"]
    /\ UNCHANGED rest_of_chat

\* the server cancels the generator where it waits at a yield (96, 99): what
\* is raised there is no Exception, the clause at 105 does not take it
ChatCancelled ==
    /\ chat.stage = "reading"
    /\ chat.suspended
    /\ chat' = [chat EXCEPT !.suspended = FALSE, !.stage = "cancelled"]
    /\ UNCHANGED rest_of_chat

NextChat == ChatBegins \/ ChatLine \/ ChatEnds \/ ChatCancelled

\* one streaming chat-completion request whose upstream answered 200
SpecChat == InitResponse /\ [][NextChat]_vars

\* ------------------------------------------------------------------ claims
PoolSize == Len(credential_pool)

Done(p) == req[p].pc = "done"

\* the activation is inside get_next_credential and has drawn its record
InsideWithRecord(p) == req[p].pc \in {"gnc_advance", "gnc_expiry", "gnc_refresh"}

\* the activation holds the with-block of auth.py:250-258
InCritical(p) == req[p].pc \in {"gnc_locked", "gnc_advance"}

\* C1 (Spec).  Round-robin fairness: with no reload, the k-th draw from a pool
\* of N >= 1 records is the record at load-order index (k-1) mod N, whatever
\* the refresh calls of earlier draws did.
C1_RoundRobin ==
    PoolSize >= 1 =>
        \A k \in 1..Len(history) : history[k] = (k - 1) % PoolSize

\* N + 1 draws from a pool of N = 2 records, one of the earlier refreshes failed
C1_Witness ==
    /\ PoolSize = 2
    /\ history = <<0, 1, 0>>
    /\ \E p \in Procs : req[p].refresh = "fail" /\ req[p].index = 1

\* C2 (Spec).  Atomic index-advance-and-fetch: two callers are never inside the
\* with-block together; callers that are inside get_next_credential together
\* hold the records of consecutive draws (indices c, c+1, ... mod N, one each
\* in draw order); and once every draw's advance is written the cursor is the
\* number of draws mod N (no lost, no doubled advance).
C2_AtomicAdvance ==
    /\ \A p, q \in Procs : p # q => ~(InCritical(p) /\ InCritical(q))
    /\ \A p \in Procs : InCritical(p) => round_robin_lock = p
    /\ \A p, q \in Procs :
         (InsideWithRecord(p) /\ InsideWithRecord(q) /\ req[p].ticket < req[q].ticket)
         => req[q].index = (req[p].index + req[q].ticket - req[p].ticket) % PoolSize
    /\ (PoolSize >= 1 /\ \A p \in Procs : req[p].pc # "gnc_advance")
         => current_credential_index = Len(history) % PoolSize

\* two callers inside get_next_credential together, holding different records
C2_Witness ==
    /\ PoolSize = 2
    /\ \E p, q \in Procs :
         /\ req[p].pc = "gnc_refresh" /\ req[q].pc = "gnc_expiry"
         /\ req[q].ticket = req[p].ticket + 1
         /\ req[p].index # req[q].index

\* C3 (SpecReload), as claimed.  Cursor invariant: whenever the pool is
\* non-empty the cursor lies in [0, len(pool)), across loads, reloads (also
\* to fewer records) and draws.
C3_CursorInRange ==
    PoolSize >= 1 =>
        current_credential_index >= 0 /\ current_credential_index < PoolSize

\* C4 (Spec).  Empty pool: get_next_credential yields no record and leaves the
\* cursor alone; send_gemini_request answers 500 and has issued no network
\* call (no refresh, discovery, onboarding or generation).
C4_EmptyPool ==
    PoolSize = 0 =>
        /\ current_credential_index = 0
        /\ history = <<>>
        /\ \A p \in Procs :
             /\ req[p].drawn = 0
             /\ req[p].calls = {}
             /\ Done(p) => req[p].status = 500 /\ req[p].body = "no_credentials"

\* a dispatch on the empty pool has ended
C4_Witness == PoolSize = 0 /\ \E p \in Procs : Done(p) /\ req[p].status = 500

\* C5 (Spec).  Refresh transparency, at the return of get_next_credential: a
\* record found expired is refreshed, and when the refresh succeeded it is
\* returned with a new, non-empty token and an expiry in the future; a record
\* whose expiry is in the future is returned as found and no refresh call is
\* made for it.
C5_RefreshTransparency ==
    \A p \in Procs :
        (req[p].pc = "sgr_creds" /\ req[p].drawn = 1) =>
            /\ req[p].seen.expiry = "past" <=> "refresh" \in req[p].calls
            /\ req[p].refresh = "ok" =>
                   /\ req[p].seen.expiry = "past"
                   /\ req[p].after.expiry = "future"
                   /\ req[p].after.token # 0
                   /\ req[p].after.token # req[p].seen.token
            /\ req[p].seen.expiry = "future" =>
                   /\ req[p].refresh = "none"
                   /\ req[p].after = req[p].seen

\* one caller is handed a refreshed record, another an unexpired one
C5_Witness ==
    \E p, q \in Procs :
        /\ req[p].pc = "sgr_creds" /\ req[p].refresh = "ok"
        /\ req[q].pc = "sgr_creds" /\ req[q].drawn = 1
        /\ req[q].seen.expiry = "future" /\ req[q].refresh = "none"

\* C6 (Spec), as claimed.  Fail-forward: a dispatch whose refresh failed goes
\* on to the generation call with that record, and the upstream's auth error
\* is what the client receives.
C6_FailForwardAsClaimed ==
    \A p \in Procs :
        (Done(p) /\ req[p].refresh = "fail") =>
            "generate" \in req[p].calls /\ req[p].status = 401

\* C6 (Spec), amended.  After a failed refresh the same record is returned and
\* no other is drawn (one draw, cursor advanced once); send_gemini_request
\* goes on with that record alone: an empty token ends it with 500 before any
\* further call, a failed project discovery ends it with 500, and otherwise
\* the generation call is issued with that record; when the token is still
\* expired at that call the client receives an error response, the upstream's
\* 401 or a 500, and never a success.
C6_FailForward ==
    [][\A p \in Procs :
         (req'[p].refresh = "fail" /\ req'[p].pc = "done" /\ req[p].pc # "done") =>
            /\ req'[p].drawn = 1
            /\ req'[p].index = req[p].index
            /\ req[p].pc = "sgr_creds" =>
                   /\ req'[p].body = "no_credentials" /\ req'[p].status = 500
                   /\ req'[p].calls = {"refresh"}
                   /\ credential_pool[req[p].index + 1].token = 0
            /\ req[p].pc = "proj_call" =>
                   /\ req'[p].body = "no_project" /\ req'[p].status = 500
                   /\ "generate" \notin req'[p].calls
            /\ req[p].pc \notin {"sgr_creds", "proj_call"} =>
                   /\ req[p].pc = "gen_call"
                   /\ "generate" \in req'[p].calls
                   /\ req[p].sent = "stale" => req'[p].status \in {401, 500}
      ]_vars

\* a dispatch whose refresh failed has reached the generation call with the
\* stale record and the client has the upstream's 401
C6_Witness ==
    \E p \in Procs :
        /\ Done(p) /\ req[p].refresh = "fail" /\ req[p].drawn = 1
        /\ "generate" \in req[p].calls /\ req[p].status = 401
        /\ Expired(credential_pool[req[p].index + 1])

\* C7 (Spec).  No fallback cascade: a dispatch draws from the pool once
\* (never a second record), whatever its outcome, and when no dispatch is
\* under way the cursor of a non-empty pool is the number of dispatches mod N.
C7_NoFallbackCascade ==
    /\ \A p \in Procs : req[p].drawn <= 1
    /\ PoolSize >= 1 =>
         /\ \A p \in Procs : Done(p) => req[p].drawn = 1
         /\ (\A p \in Procs : req[p].pc \in {"idle", "done"})
                => current_credential_index = ndispatch % PoolSize

\* three dispatches have ended, among them a failed project discovery and a
\* failed transport
C7_Witness ==
    /\ PoolSize = 2 /\ ndispatch = 3 /\ current_credential_index = 1
    /\ \E p, q \in Procs :
         /\ Done(p) /\ req[p].body = "no_project"
         /\ Done(q) /\ req[q].body = "request_failed"

\* --- the loader
Names(pool) == [k \in 1..Len(pool) |-> pool[k].source_name]

\* the positions of a source whose object is JSON with a non-empty refresh_token
ValidAt(cands, k) == cands[k].json /\ cands[k].refresh_token

RECURSIVE ValidNames(_, _, _)
ValidNames(cands, kind, k) ==
    IF k > Len(cands) THEN <<>>
    ELSE (IF ValidAt(cands, k) THEN <<(<<kind, k>>)>> ELSE <<>>)
         \o ValidNames(cands, kind, k + 1)

ValidNumbered == ValidNames(loadCall.numbered, "numbered", 1)
ValidArray ==
    IF loadCall.array.set /\ loadCall.array.json
    THEN ValidNames(loadCall.array.items, "array", 1) ELSE <<>>

Modes == {"Numbered", "ArrayOrSingle", "Mixed", "File", "Unconfigured"}

C9_ReturnsPair ==
    loadCall.called =>
        /\ Len(loadCall.ret) = 2
        /\ loadCall.ret[1] \in Modes
        /\ phase # "exit"

\* the object a pool record was built from, by its source_name
CandidateOf(name) ==
    CASE name[1] = "numbered" -> loadCall.numbered[name[2]]
      [] name[1] = "array"    -> loadCall.array.items[name[2]]
      [] name[1] = "file"     -> loadCall.file[1]

\* C10 (SpecLoad).  Validation at load: no record of the pool comes from an
\* object without a non-empty refresh_token or from malformed JSON; an invalid
\* object does not end the load (every valid numbered object after it is
\* loaded); and when every object is invalid, no credential file exists and
\* the interactive flow is not allowed, the pool is empty.
C10_Validation ==
    loadCall.called =>
        /\ \A k \in 1..PoolSize :
             credential_pool[k].source_name[1] # "oauth" =>
                 LET c == CandidateOf(credential_pool[k].source_name)
                 IN c.json /\ c.refresh_token
        /\ \A i, j \in 1..Len(loadCall.numbered) :
             (i < j /\ ~ValidAt(loadCall.numbered, i) /\ ValidAt(loadCall.numbered, j))
             => \E k \in 1..PoolSize : credential_pool[k].source_name = <<"numbered", j>>
        /\ (ValidNumbered = <<>> /\ ValidArray = <<>> /\ loadCall.file = <<>>
            /\ ~loadCall.allow /\ (loadCall.numbered # <<>> \/ loadCall.array.set))
           => PoolSize = 0

\* an invalid first object, a valid second one, and the second is in the pool
C10_Witness ==
    /\ loadCall.called
    /\ Len(loadCall.numbered) = 2
    /\ ~ValidAt(loadCall.numbered, 1) /\ ValidAt(loadCall.numbered, 2)
    /\ Names(credential_pool) = <<(<<"numbered", 2>>)>>

\* C11 (Spec).  Refresh-token invariant: in every reachable state every record
\* of the pool has a non-empty refresh token, whichever source it was loaded
\* from (numbered variable, array, credential file, interactive flow) and
\* whatever refreshes, discoveries and onboardings have happened since.
C11_RefreshTokenInvariant ==
    \A k \in 1..PoolSize : credential_pool[k].refresh_token = TRUE

\* the record of the interactive flow, after it expired and was refreshed
C11_Witness ==
    \E k \in 1..PoolSize :
        /\ credential_pool[k].credential_source_type = "oauth_flow"
        /\ credential_pool[k].refresh_token
        /\ credential_pool[k].token >= 2

\* a discovery call for the record at position k of the pool is in flight
DiscoveryInFlight(k) ==
    \E q \in Procs : req[q].pc = "proj_call" /\ req[q].index = k - 1

\* the step is the return of get_user_project_id's test of the cache for p
ChecksProject(p) ==
    /\ req[p].pc = "sgr_creds" /\ req'[p].pc # "sgr_creds"
    /\ ~NoUsableCredential(req[p], credential_pool)

C13_NoProjectFatal ==
    [][\A p \in Procs :
         (req[p].pc = "proj_call" /\ req'[p].pc = "done") =>
            /\ req'[p].status = 500 /\ req'[p].body = "no_project"
            /\ req'[p].calls \in {{"discover"}, {"refresh", "discover"}}
            /\ req'[p].proj = 0
            /\ req'[p].drawn = 1 /\ req'[p].index = req[p].index
            /\ credential_pool' = credential_pool
            /\ current_credential_index' = current_credential_index
            /\ history' = history
      ]_vars

\* a dispatch has ended on a failed discovery and its record has no project id
C13_Witness ==
    \E p \in Procs :
        /\ Done(p) /\ req[p].body = "no_project" /\ req[p].status = 500
        /\ Rec(p).project_id = 0
        /\ PoolSize = 2 /\ req[p].index = 1 /\ history = <<0, 1>>
        /\ current_credential_index = 0

\* the onboarded flag of the record p has drawn, now and after the step
Onboarded(p) == Rec(p).onboarding_complete
OnboardedNext(p) == credential_pool'[req[p].index + 1].onboarding_complete

\* C14 (Spec).  One-shot onboarding: an onboarding call that ends with a
\* success status or with 409 sets the record's flag, any other end leaves the
\* flag as it was; a set flag is never unset; a dispatch that comes to
\* onboard_user issues the onboarding call exactly when the flag is unset (so
\* never after a success or 409, and again after a failure).
C14_OneShotOnboarding ==
    [][/\ \A p \in Procs :
            /\ (req[p].pc = "onb_call" /\ req'[p].pc # "onb_call") =>
                   /\ req'[p].onb \in OnboardReplies
                   /\ req'[p].onb \in {200, 409} => OnboardedNext(p)
                   /\ req'[p].onb \notin {200, 409} => OnboardedNext(p) = Onboarded(p)
            /\ (req[p].pc \in {"sgr_creds", "proj_call"}
                    /\ req'[p].pc \in {"onb_call", "gen_call"}) =>
                   /\ Onboarded(p) =>
                          req'[p].pc = "gen_call" /\ "onboard" \notin req'[p].calls
                   /\ ~Onboarded(p) =>
                          req'[p].pc = "onb_call" /\ "onboard" \in req'[p].calls
       /\ \A k \in 1..PoolSize :
            credential_pool[k].onboarding_complete
                => credential_pool'[k].onboarding_complete
      ]_vars

\* the onboarding call of one dispatch ended with 409 and a later dispatch
\* drawing the same record has gone to the generation call without one
C14_Witness ==
    \E p, q \in Procs :
        /\ p # q /\ req[p].index = req[q].index
        /\ req[q].pc = "gen_call" /\ req[q].onb = 409
        /\ req[p].pc = "gen_call" /\ "onboard" \notin req[p].calls
        /\ Onboarded(p)

\* C15 (Spec).  Onboarding is best-effort: a dispatch that has a record with a
\* token and a project id goes to onboard_user or straight to the generation
\* call, and whatever the onboarding call answers (success, 409, another
\* HTTP status, a transport exception) the generation call is issued next,
\* for the same record and project.
C15_OnboardingBestEffort ==
    [][\A p \in Procs :
         /\ (req[p].pc = "onb_call" /\ req'[p] # req[p]) =>
                /\ req'[p].pc = "gen_call"
                /\ "generate" \in req'[p].calls
                /\ req'[p].onb \in OnboardReplies
                /\ req'[p].index = req[p].index /\ req'[p].proj = req[p].proj
         /\ (req[p].pc \in {"sgr_creds", "proj_call"} /\ req'[p].proj # 0) =>
                /\ req'[p].pc \in {"onb_call", "gen_call"}
                /\ req'[p].pc = "gen_call" => "generate" \in req'[p].calls
      ]_vars

\* two generation calls are in flight, one after an onboarding call answered
\* 401, one after an onboarding call that failed in transport
C15_Witness ==
    \E p, q \in Procs :
        /\ req[p].pc = "gen_call" /\ req[p].onb = 401
        /\ req[q].pc = "gen_call" /\ req[q].onb = 0
        /\ "generate" \in req[p].calls /\ "generate" \in req[q].calls

\* a unary call has been answered and its Response returned
UnaryReturned ==
    /\ exchange.stage = "returned" /\ ~exchange.streaming
    /\ exchange.reply.status # 0

\* C16 (SpecResponse), as claimed.  Response unwrapping: for a unary call
\* answered 200 the body returned is the object under the upstream body's
\* `response` field; when that field is null or absent the body returned is
\* {"candidates": []}, and never the JSON value null.
C16_UnwrapAsClaimed ==
    (UnaryReturned /\ exchange.reply.status = 200) =>
        /\ exchange.response.status = 200
        /\ exchange.reply.body = "response_obj" => exchange.response.body = "inner"
        /\ exchange.reply.body \in {"response_null", "no_response"}
               => exchange.response.body = "empty_candidates"
        /\ exchange.response.body # "null"

\* C17 (SpecResponse), as claimed.  Upstream error pass-through: for a unary
\* call answered with a non-2xx status the Response carries the upstream's
\* status for every shape of the body: the error envelope for a body whose
\* `error` is an object, the body unchanged for every other shape.
C17_PassThroughAsClaimed ==
    (UnaryReturned /\ exchange.reply.status # 200) =>
        /\ exchange.response.status = exchange.reply.status
        /\ exchange.reply.body = "error_obj" => exchange.response.body = "error_envelope"
        /\ exchange.reply.body # "error_obj" => exchange.response.body = "raw"

\* C18 (SpecResponse), as claimed.  Transport errors map to 502: when
\* requests.post raises before any HTTP response is received, the Response
\* returned has status 502.
C18_TransportAs502 ==
    (exchange.stage = "returned" /\ exchange.reply.status = 0) =>
        exchange.response.status = 502

\* C19 (SpecResponse).  Streaming call with a non-200 initial status: no
\* upstream line is read or relayed; the stream returned yields exactly one
\* event, an error object carrying the upstream's status code and its message
\* (the upstream's when the body has an `error` object), and then ends.
C19_StreamingError ==
    (exchange.streaming /\ exchange.reply.status \notin {-1, 0, 200}) =>
        /\ exchange.stage \in {"error_stream", "ended"}
        /\ exchange.pos = 0
        /\ exchange.stage = "error_stream" => exchange.events = <<>>
        /\ exchange.stage = "ended" =>
               /\ Len(exchange.events) = 1
               /\ exchange.events[1].type = "error"
               /\ exchange.events[1].code = exchange.reply.status
               /\ exchange.reply.body = "error_obj"
                      => exchange.events[1].payload = "upstream_message"

\* the error stream of a call answered 404 with an `error` object has ended
C19_Witness ==
    /\ exchange.streaming /\ exchange.stage = "ended"
    /\ exchange.reply = [status |-> 404, body |-> "error_obj"]
    /\ exchange.events = <<ErrorObject(404, "upstream_message")>>

\* the line starts with `data: ` and holds valid JSON
ValidJsonLine(line) ==
    line \in {"data_response_a", "data_response_b", "data_no_response", "data_scalar"}

\* a 200 stream is being relayed or has been
Relayed ==
    /\ exchange.streaming /\ exchange.reply.status = 200
    /\ exchange.stage \in {"relaying", "ended"}
    /\ ~exchange.failed /\ ~exchange.gone

\* C20 (SpecResponse), as claimed.  Stream relay: for a streaming call
\* answered 200 the events yielded are, in upstream order, exactly one data
\* event per line read that starts with `data: ` and holds valid JSON,
\* carrying the value of its `response` field; every other line yields
\* nothing; and no line ends the stream before the upstream's last line.
C20_RelayAsClaimed ==
    Relayed =>
        LET valid == SelectSeq(SubSeq(exchange.lines, 1, exchange.pos), ValidJsonLine)
        IN /\ Len(exchange.events) = Len(valid)
           /\ \A i \in 1..Len(exchange.events) :
                  /\ i <= Len(valid)
                  /\ exchange.events[i].type = "data"
                  /\ valid[i] = "data_response_a" => exchange.events[i].payload = "a"
                  /\ valid[i] = "data_response_b" => exchange.events[i].payload = "b"
           /\ exchange.stage = "ended" => exchange.pos = Len(exchange.lines)

\* C21 (SpecResponse).  Error after the stream has begun: the step in which
\* reading the upstream stream fails adds exactly one event to the events
\* relayed so far, an error event, behind all of them; none of them is an
\* error event; the stream ends with that step and nothing follows.
C21_ErrorAfterBegin ==
    [][
        /\ (exchange'.failed /\ ~exchange.failed) =>
             /\ exchange.stage = "relaying"
             /\ exchange'.stage = "ended"
             /\ Len(exchange'.events) = Len(exchange.events) + 1
             /\ SubSeq(exchange'.events, 1, Len(exchange.events)) = exchange.events
             /\ exchange'.events[Len(exchange'.events)].type = "error"
             /\ \A i \in 1..Len(exchange.events) : exchange.events[i].type = "data"
        /\ exchange.failed => (exchange' = exchange)
      ]_vars

\* the read failed after two events had been relayed: three events, the
\* error event last
C21_Witness ==
    /\ exchange.failed /\ exchange.stage = "ended"
    /\ Len(exchange.events) = 3
    /\ exchange.events[1].type = "data" /\ exchange.events[2].type = "data"
    /\ exchange.events[3] = ErrorObject(502, "upstream_request_failed")

\* C22 (SpecResponse), as claimed.  Cancellation: once the inbound client
\* has disconnected while a stream is relayed, no further upstream line is
\* read, and a relay that ended after the disconnect has closed the upstream
\* connection.
C22_CancellationAsClaimed ==
    /\ [][exchange.gone => exchange'.pos = exchange.pos]_vars
    /\ []((exchange.gone /\ exchange.stage = "ended") => exchange.closed)

\* the finish reason the mapping table gives for a candidate's finishReason
\* (<<>> = null / absent)
TableEntry(reason) ==
    IF reason = <<"STOP">> THEN <<"stop">>
    ELSE IF reason = <<"MAX_TOKENS">> THEN <<"length">>
    ELSE IF reason = <<"SAFETY">> \/ reason = <<"RECITATION">> THEN <<"content_filter">>
    ELSE <<>>

\* C23 (SpecTransform).  Finish-reason mapping: every choice of the
\* aggregate and of the stream-chunk transformer carries the table's entry
\* for its candidate's finishReason (STOP: stop, MAX_TOKENS: length, SAFETY
\* and RECITATION: content_filter, anything else or absent: null), and the
\* aggregate transformer builds one choice per candidate, in order.
C23_FinishReasonMapping ==
    /\ xform.stage \in {"aggregate", "chunk"} =>
          \A i \in 1..Len(xform.choices) :
              /\ xform.choices[i].cand \in 1..Len(xform.candidates)
              /\ xform.choices[i].finish_reason =
                     TableEntry(xform.candidates[xform.choices[i].cand].finishReason)
    /\ xform.stage = "aggregate" =>
          /\ Len(xform.choices) = Len(xform.candidates)
          /\ \A k \in 1..Len(xform.choices) : xform.choices[k].cand = k

\* an aggregate response with a RECITATION and an unknown finish reason
C23_Witness ==
    /\ xform.stage = "aggregate" /\ Len(xform.candidates) = 2
    /\ xform.candidates[1].finishReason = <<"RECITATION">>
    /\ xform.candidates[2].finishReason = <<"OTHER">>
    /\ xform.choices[1].finish_reason = <<"content_filter">>
    /\ xform.choices[2].finish_reason = <<>>

\* a request whose first message is a system message and whose second is a
\* user message has been transformed
SystemThenUser ==
    /\ xform.stage = "request" /\ Len(xform.messages) >= 2
    /\ xform.messages[1].role = "system" /\ xform.messages[2].role = "user"

\* C24 (SpecTransform), as claimed.  System-prompt merge: for a leading
\* system message with text S followed by a user message with text U no
\* system turn is emitted, the first content entry is the user entry with
\* text S, "\n\n", U, and the caller's messages are left as they were.
C24_MergeAsClaimed ==
    SystemThenUser =>
        /\ Len(xform.contents) = Len(xform.messages) - 1
        /\ xform.contents[1] =
              [role |-> "user",
               text |-> xform.messages[1].content \o <<"\n\n">> \o xform.messages[2].content]
        /\ xform.after = xform.messages

\* C24 (SpecTransform), amended.  As claimed for a non-empty S; for an empty
\* S the system message is dropped and the first content entry is the user
\* entry with text U alone.
C24_SystemPromptMerge ==
    SystemThenUser =>
        /\ Len(xform.contents) = Len(xform.messages) - 1
        /\ xform.contents[1].role = "user"
        /\ xform.messages[1].content # <<>> =>
              xform.contents[1].text =
                 xform.messages[1].content \o <<"\n\n">> \o xform.messages[2].content
        /\ xform.messages[1].content = <<>> =>
              xform.contents[1].text = xform.messages[2].content
        /\ xform.after = xform.messages

\* a system message S, a user message U and an assistant message
C24_Witness ==
    /\ SystemThenUser /\ Len(xform.messages) = 3
    /\ xform.messages[1].content = <<"S">> /\ xform.messages[2].content = <<"U">>
    /\ xform.messages[3].role = "assistant"
    /\ xform.contents[1].text = <<"S", "\n\n", "U">>
    /\ xform.contents[2].role = "model"

\* the candidate has non-empty concatenated text or a finish reason
HasTextOrReason(candidate) ==
    \/ \E j \in 1..Len(candidate.parts) : candidate.parts[j] # <<>>
    \/ candidate.finishReason # <<>>

\* C25 (SpecTransform).  Stream suppression: the stream-chunk transformer
\* builds a choice for a candidate if and only if the candidate has
\* non-empty concatenated text or a finish reason, at most one per
\* candidate and in the candidates' order; a chunk whose candidates all
\* have neither yields no choice.
C25_StreamSuppression ==
    xform.stage = "chunk" =>
        /\ \A k \in 1..Len(xform.candidates) :
               HasTextOrReason(xform.candidates[k])
                  <=> \E i \in 1..Len(xform.choices) : xform.choices[i].cand = k
        /\ \A i, j \in 1..Len(xform.choices) :
               i < j => xform.choices[i].cand < xform.choices[j].cand
        /\ (\A k \in 1..Len(xform.candidates) : ~HasTextOrReason(xform.candidates[k]))
               => xform.choices = <<>>

\* a chunk of two candidates: the first with neither text nor finish
\* reason, the second with a finish reason only; one choice, for the second
C25_Witness ==
    /\ xform.stage = "chunk" /\ Len(xform.candidates) = 2
    /\ xform.candidates[1] = [parts |-> <<<<>>>>, finishReason |-> <<>>]
    /\ xform.candidates[2] = [parts |-> <<>>, finishReason |-> <<"OTHER">>]
    /\ Len(xform.choices) = 1 /\ xform.choices[1].cand = 2
    /\ xform.choices[1].content = <<>>

\* gemini_proxy has answered a request
ProxyAnswered == route.stage = "answered" /\ route.handler = "gemini_proxy"

\* name is the segment cut at its first colon
CutAtFirstColon(name, segment) ==
    /\ \A j \in 1..Len(name) : name[j] # ":"
    /\ Len(name) <= Len(segment)
    /\ SubSeq(segment, 1, Len(name)) = name
    /\ Len(name) < Len(segment) => segment[Len(name) + 1] = ":"

\* the path has a segment after its first `models` segment
HasSegmentAfterModels(parts) ==
    \E i \in 1..(Len(parts) - 1) :
        /\ parts[i] = <<"models">>
        /\ \A j \in 1..(i - 1) : parts[j] # <<"models">>

\* C26 (SpecRoutes).  Model-path extraction: the name extracted is the
\* segment after the first `models` segment cut at its first colon; for a
\* path with no `models` segment, with `models` last or with an empty
\* segment after it no model is extracted, gemini_proxy answers 400, and
\* send_gemini_request is not entered and the pool's cursor has not moved.
C26_ModelPathExtraction ==
    ProxyAnswered =>
        /\ HasSegmentAfterModels(route.path) =>
              /\ route.model # <<>>
              /\ \A i \in 1..(Len(route.path) - 1) :
                    (/\ route.path[i] = <<"models">>
                     /\ \A j \in 1..(i - 1) : route.path[j] # <<"models">>)
                       => CutAtFirstColon(route.model[1], route.path[i + 1])
        /\ ~HasSegmentAfterModels(route.path) => route.model = <<>>
        /\ (\/ ~HasSegmentAfterModels(route.path)
            \/ \E i \in 1..(Len(route.path) - 1) :
                  /\ route.path[i] = <<"models">>
                  /\ \A j \in 1..(i - 1) : route.path[j] # <<"models">>
                  /\ route.path[i + 1] = <<>>)
             => /\ NoModelName(route.model)
                /\ route.status = 400
                /\ ~route.invoked
                /\ history = <<>> /\ current_credential_index = 0
                /\ ndispatch = 0

\* v1beta/models/gemini-pro:generateContent was answered with the model
\* gemini-pro extracted, and the pool holds records to draw from
C26_Witness ==
    /\ ProxyAnswered
    /\ route.path = <<<<"v1beta">>, <<"models">>, <<"gemini-pro", ":", "generateContent">>>>
    /\ route.model = <<<<"gemini-pro">>>>
    /\ PoolSize = MaxCreds

\* an authenticated native request with an extractable model and a valid
\* JSON body, or an authenticated chat-completion request, has been answered
WellFormedAnswered ==
    /\ route.stage = "answered" /\ route.auth
    /\ \/ /\ route.handler = "gemini_proxy"
          /\ ~NoModelName(route.model)
          /\ route.body \in {"empty", "json"}
       \/ route.handler = "openai_chat_completions"

\* C27 (SpecRoutes), as claimed.  End-to-end dispatch through the routes:
\* for a well-formed authenticated request the handler enters
\* send_gemini_request and the client receives the status of the
\* dispatcher's Response (and, on the native route, its body): 200 when the
\* dispatcher's Response is 200.
C27_EndToEndAsClaimed ==
    WellFormedAnswered =>
        /\ route.invoked
        /\ route.status = route.dispatcher.status
        /\ route.handler = "gemini_proxy" => route.out = route.dispatcher.body

\* C28 (Spec).  Refresh runs outside the lock: a caller whose refresh call
\* is in flight does not hold round_robin_lock; and at the return of a
\* successful refresh the record holds a non-empty token and an expiry in
\* the future, and once no refresh of that record is pending any more the
\* token is the one delivered to one of the callers whose refresh of it
\* succeeded.
C28_RefreshOutsideLock ==
    /\ [](\A p \in Procs : req[p].pc = "gnc_refresh" => round_robin_lock # p)
    /\ [][\A p \in Procs :
            (req[p].pc = "gnc_refresh" /\ req'[p].pc # "gnc_refresh"
                /\ req'[p].refresh = "ok") =>
               /\ credential_pool'[req[p].index + 1].expiry = "future"
               /\ credential_pool'[req[p].index + 1].token > 0
               /\ (\A q \in Procs : req'[q].pc = "gnc_refresh" => req'[q].index # req[p].index)
                     => \E q \in Procs :
                           /\ req'[q].refresh = "ok" /\ req'[q].index = req[p].index
                           /\ credential_pool'[req[p].index + 1].token = req'[q].after.token
        ]_vars

\* two callers found the same record expired and both refreshed it, the
\* refresh calls overlapping; the record holds the token of one of them
C28_Witness ==
    \E p, q \in Procs :
        /\ p # q /\ ticks = 0
        /\ req[p].index = req[q].index
        /\ req[p].pc = "sgr_creds" /\ req[q].pc = "sgr_creds"
        /\ req[p].refresh = "ok" /\ req[q].refresh = "ok"
        /\ req[p].seen.expiry = "past" /\ req[q].seen.expiry = "past"
        /\ req[p].after.token # req[q].after.token
        /\ Rec(q).token = req[q].after.token /\ Rec(q).expiry = "future"

\* the caller waits for its discovery, onboarding or generation call
AwaitsNetwork(p) == req[p].pc \in {"proj_call", "onb_call", "gen_call"}

\* C29 (SpecLoop), as claimed.  Non-blocking suspension points: while one
\* request waits for its discovery, onboarding or generation call to
\* return, another inbound request can take its next step (enter
\* send_gemini_request and go on to acquire a credential).
C29_NonBlockingAsClaimed ==
    \A p, q \in Procs :
        (/\ p # q /\ AwaitsNetwork(p)
         /\ req[q].pc \in {"idle", "done"} /\ ndispatch < MaxDispatch)
            => ENABLED OnLoop(q)

\* C30 (SpecProject), as claimed.  Monotonic per-record state: in every
\* step, a record whose project id is set keeps that very id, and a record
\* whose onboarded flag is true keeps it true.
C30_MonotonicAsClaimed ==
    [][\A k \in 1..PoolSize :
          /\ credential_pool[k].project_id # 0 =>
                credential_pool'[k].project_id = credential_pool[k].project_id
          /\ credential_pool[k].onboarding_complete =>
                credential_pool'[k].onboarding_complete
      ]_vars

\* C30 (SpecProject), amended.  A record's project id, once set, is never
\* cleared; it changes only in a step in which a project listing issued for
\* that record returns, to the id that listing delivered; the onboarded
\* flag, once true, stays true.
C30_NeverCleared ==
    [][\A k \in 1..PoolSize :
          /\ credential_pool[k].project_id # 0 =>
                /\ credential_pool'[k].project_id # 0
                /\ credential_pool'[k].project_id # credential_pool[k].project_id =>
                      \E p \in Procs :
                          /\ req[p].pc = "proj_call" /\ req[p].index = k - 1
                          /\ req'[p].pc # "proj_call"
                          /\ req'[p].proj = credential_pool'[k].project_id
          /\ credential_pool[k].onboarding_complete =>
                credential_pool'[k].onboarding_complete
      ]_vars

\* two callers drew the same record without a project id, their listings
\* delivered different ids, and the record, onboarded, holds the later one
C30_Witness ==
    \E p, q \in Procs :
        /\ p # q /\ req[p].index = req[q].index
        /\ req[p].proj # 0 /\ req[q].proj # 0 /\ req[p].proj # req[q].proj
        /\ req[p].pc = "gen_call" /\ req[q].pc \in {"onb_call", "gen_call"}
        /\ Rec(q).project_id = req[q].proj
        /\ Rec(q).onboarding_complete

\* the record was loaded from GEMINI_CREDENTIALS{i} or from GEMINI_CREDENTIALS
FromEnvironment(c) == c.source_name[1] \in {"numbered", "array"}

\* C31 (Spec), as claimed.  Persistence on project discovery: in a step in
\* which a project listing returns a project, the enriched record is written
\* to the credential file if and only if the record was not loaded from an
\* environment variable; a record from a numbered variable or from the array
\* variable leaves the file as it is.
C31_PersistenceAsClaimed ==
    [][\A p \in Procs :
          (req[p].pc = "proj_call" /\ req'[p].pc \in {"onb_call", "gen_call"}) =>
              IF FromEnvironment(credential_pool'[req[p].index + 1])
              THEN credFile' = credFile
              ELSE credFile' = <<SavedCredential(credential_pool'[req[p].index + 1],
                                                 req'[p].proj)>>
      ]_vars

\* the numbered variables and the array, as the loader reads them, gave a record
EnvironmentYields ==
    ValidNumbered # <<>> \/ (loadCall.numbered = <<>> /\ ValidArray # <<>>)

\* the credential file found by the call holds an object that gives a record
FileYields ==
    /\ loadCall.file # <<>>
    /\ ValidAt(loadCall.file, 1)
    /\ loadCall.file[1].expiry # "bad"

\* the pool holds a record of the given kind of source
PoolHas(kind) == \E k \in 1..PoolSize : credential_pool[k].source_name[1] = kind

\* C32 (SpecLoad).  Fallback sources: a record of the credential file is in
\* the pool only when the numbered variables and the array gave none; the
\* credential of the interactive flow is in the pool only when the flow was
\* allowed and environment and file gave none, it is then the only record of
\* the pool and the credential file holds it; when the flow is allowed and
\* delivers a credential the pool is not left empty; without the flow the
\* load leaves the credential file as it found it.
C32_FallbackSources ==
    loadCall.called =>
        /\ PoolHas("file") => ~EnvironmentYields
        /\ PoolHas("oauth") =>
              /\ loadCall.allow /\ ~EnvironmentYields /\ ~FileYields
              /\ credential_pool = <<FlowCredential(loadCall.flow)>>
              /\ credFile = <<SavedCredential(FlowCredential(loadCall.flow), 0)>>
        /\ (loadCall.allow /\ loadCall.flow # <<>>) => PoolSize > 0
        /\ ~PoolHas("oauth") => credFile = loadCall.file

\* a file whose object is invalid was found, the flow ran, and pool and file
\* hold the credential of the flow
C32_Witness ==
    /\ loadCall.called /\ loadCall.file # <<>> /\ loadCall.numbered # <<>>
    /\ PoolHas("oauth") /\ PoolSize = 1
    /\ credFile # loadCall.file

\* the object of the credential file is JSON with a refresh token and an
\* expiry that cannot be parsed, and the load comes to read the file
UnparseableInFile ==
    /\ loadCall.called /\ ~EnvironmentYields
    /\ loadCall.file # <<>> /\ ValidAt(loadCall.file, 1)
    /\ loadCall.file[1].expiry \in {"badz", "bad"}

\* C33 (SpecLoad), as claimed.  Unparseable expiry: an object with a valid
\* refresh token whose expiry cannot be parsed, whatever its form, still
\* gives a record; the expiry is dropped and the record counts as expired, so
\* a refresh is attempted during the load: where the token endpoint answers
\* the record holds a new token, where it does not the record is expired.
C33_UnparseableAsClaimed ==
    UnparseableInFile =>
        /\ PoolHas("file")
        /\ 1 \in loadCall.okset => credential_pool[1].token >= 2
        /\ 1 \notin loadCall.okset => Expired(credential_pool[1])

\* the refresh made for the record at load failed: it was kept with an empty
\* token, or with an expiry that has passed
LeftUnrefreshed(c) == c.token = 0 \/ Expired(c)

\* C34 (Spec), as claimed.  Eager refresh at load is non-fatal and retried
\* lazily: a record that the load kept although its refresh failed (its token
\* is empty or its expiry has passed) is refreshed again by the call of
\* get_next_credential that returns it, also when it has an empty token and
\* no expiry: the step that looks at the record's expiry goes on to the
\* refresh call.
C34_LazyRetryAsClaimed ==
    [][\A p \in Procs :
          (/\ req[p].pc = "gnc_expiry" /\ req'[p].pc # "gnc_expiry"
           /\ LeftUnrefreshed(Rec(p)))
              => (req'[p].pc = "gnc_refresh" /\ "refresh" \in req'[p].calls)
      ]_vars

\* the configured source, here the credential file, holds an object from
\* which the loader builds a record with a token
SourcesYieldRecord ==
    /\ credFile # <<>>
    /\ credFile[1].json /\ credFile[1].refresh_token
    /\ credFile[1].expiry # "bad"
    /\ NormalisedToken(credFile[1]) # 0

\* C35 (SpecUnbuilt), as claimed.  On-demand build: when a request needs a
\* credential and the pool has not been built, the pool is built then from
\* the configured sources, so the dispatch is answered "no credentials
\* available" only when the sources hold no valid record.
C35_OnDemandAsClaimed ==
    \A p \in Procs :
        (Done(p) /\ req[p].status = NoCredentialsResponse.status
                 /\ req[p].body = NoCredentialsResponse.body)
            => ~SourcesYieldRecord

\* the chunks the claim expects for the lines of the upstream: one for every
\* enveloped response with candidate text or a finish reason
RECURSIVE ExpectedChunks(_)
ExpectedChunks(lines) ==
    IF lines = <<>> THEN <<>>
    ELSE (IF /\ Head(lines).kind = "data" /\ Head(lines).wrapped
             /\ Head(lines).value.keys = {"candidates"}
             /\ ChoiceEmitted(Head(lines).value.candidates[1])
          THEN <<ChunkEvent(GeminiStreamChunkToOpenAI(Head(lines).value.candidates))>>
          ELSE <<>>)
         \o ExpectedChunks(Tail(lines))

\* C36 (SpecChat), as claimed.  Chat-completion streaming translation: when
\* the run of the stream generator has ended without an exception, the
\* translated chunks it emitted are, in upstream order, exactly one for
\* every upstream event whose enveloped response has candidate text or a
\* finish reason, each with the delta of that response.
C36_TranslationAsClaimed ==
    (chat.stage = "ended" /\ ~chat.raised) =>
        SelectSeq(chat.out, LAMBDA e : e.type = "chunk") = ExpectedChunks(chat.upstream)

\* C37 (SpecChat).  Stream termination marker: a run of
\* _openai_stream_generator that has ended without being cancelled emitted
\* the marker `data: [DONE]` exactly once, as its last event; after an
\* exception the event before the marker is the one error event of the
\* except clause, and without an exception no such event was emitted.
C37_TerminationMarker ==
    chat.stage = "ended" =>
        LET n == Len(chat.out)
        IN /\ n >= 1 /\ chat.out[n] = DoneMarker
           /\ \A i \in 1..(n - 1) : chat.out[i] # DoneMarker
           /\ chat.raised =>
                 /\ n >= 2 /\ chat.out[n - 1] = StreamError
                 /\ \A i \in 1..(n - 2) : chat.out[i] # StreamError
           /\ ~chat.raised => \A i \in 1..n : chat.out[i] # StreamError

\* an event was passed on, then an exception ended the run
C37_Witness ==
    /\ chat.stage = "ended" /\ chat.raised
    /\ Len(chat.out) >= 3

\* the messages passed, without a leading system message
AfterLeadingSystem ==
    IF xform.messages # <<>> /\ xform.messages[1].role = "system"
    THEN Tail(xform.messages) ELSE xform.messages

\* text ends with suffix
EndsWith(text, suffix) ==
    /\ Len(suffix) <= Len(text)
    /\ SubSeq(text, Len(text) - Len(suffix) + 1, Len(text)) = suffix

\* C38 (SpecTransform).  Role mapping and turn order: the contents built by
\* openai_request_to_gemini hold exactly one entry per message other than a
\* leading system message, in the order of the messages (each entry carries
\* the text of its message, the first one possibly behind the system
\* prompt), with role model if and only if the message's role is assistant
\* and user for every other role, a later system message included.
C38_RoleMapping ==
    xform.stage = "request" =>
        /\ Len(xform.contents) = Len(AfterLeadingSystem)
        /\ \A i \in 1..Len(AfterLeadingSystem) :
             /\ xform.contents[i].role = "model" <=> AfterLeadingSystem[i].role = "assistant"
             /\ xform.contents[i].role \in {"model", "user"}
             /\ EndsWith(xform.contents[i].text, AfterLeadingSystem[i].content)
             /\ i > 1 => xform.contents[i].text = AfterLeadingSystem[i].content

\* a leading system message, a second system message and an assistant
\* message give a user turn and a model turn
C38_Witness ==
    /\ xform.stage = "request"
    /\ Len(xform.messages) = 3
    /\ xform.messages[1].role = "system" /\ xform.messages[2].role = "system"
    /\ xform.messages[3].role = "assistant"
    /\ xform.messages[2].content # xform.messages[3].content
    /\ Len(xform.contents) = 2
    /\ xform.contents[1].role = "user" /\ xform.contents[2].role = "model"

\* text begins with prefix
BeginsWith(text, prefix) ==
    /\ Len(prefix) <= Len(text)
    /\ SubSeq(text, 1, Len(prefix)) = prefix

\* C39 (SpecTransform), as claimed.  The system prompt is never lost: when
\* the messages begin with a system message and hold a user message, the
\* text of the system message stands in the turn built from the first user
\* message, also when the message after the system message is no user
\* message.
C39_SystemPromptKeptAsClaimed ==
    (/\ xform.stage = "request"
     /\ xform.messages # <<>> /\ xform.messages[1].role = "system"
     /\ \E i \in 1..Len(AfterLeadingSystem) : AfterLeadingSystem[i].role = "user")
        => \E i \in 1..Len(AfterLeadingSystem) :
              /\ AfterLeadingSystem[i].role = "user"
              /\ \A j \in 1..(i - 1) : AfterLeadingSystem[j].role # "user"
              /\ BeginsWith(xform.contents[i].text, xform.messages[1].content)

====
